---- MODULE Spec2Model ----
(***************************************************************************)
(* Authentication and session security of dunno: the token service        *)
(* (issue, verify, refresh, temp tokens, blacklist), the tRPC guards, the  *)
(* login / two-factor router handlers and the rate limiter over the       *)
(* shared cache.  Time is counted in whole seconds, which is what both the *)
(* code (Math.floor(Date.now() / 1000)) and the JWT library compare.      *)
(***************************************************************************)
EXTENDS Integers, Sequences, FiniteSets, TLC

VARIABLES
    now,        \* the clock, in seconds
    ticks,      \* how many times the clock has advanced
    cacheUp,    \* whether the shared cache answers
    users,      \* the user store: userId -> user record
    issued,     \* every token the token service has signed
    pairs,      \* history: the generateTokenPair calls made
    blacklist,  \* cache keys blacklist:<token> written -> when the entry expires
    rateLimits, \* cache keys of the rate limiter -> RateLimitInfo and expiry
    tracked,    \* history: trackAttempt calls per key since the last reset
    inflight,   \* calls that have read the store and not yet returned
    handles,    \* the module-level client handles of the process
    todos,      \* the todo store: a set of todo records
    notes,      \* the note store: a set of note records
    res         \* the outcome of the last operation

vars == <<now, ticks, cacheUp, users, issued, pairs, blacklist, rateLimits,
          tracked, inflight, handles, todos, notes, res>>

(***************************************************************************)
(* Bounds of the model.                                                    *)
(***************************************************************************)
MaxTicks == 1
MaxTokens == 3

(***************************************************************************)
(* Program constants.                                                      *)
(***************************************************************************)
AccessTokenExpiry == 900
RefreshTokenExpiry == 604800
TempTokenExpiry == 300
Issuer == "dunno-api"
Audience == "dunno-client"

UserIds == {"u1", "u2"}
Username(u) == IF u = "u1" THEN "alice" ELSE "bob"
Email(u) == IF u = "u1" THEN "alice@example.org" ELSE "bob@example.org"

\* The users the token service is called for directly.
TokenUsers == {"u1"}

\* The amounts by which the clock advances between two operations.
Steps == {1, AccessTokenExpiry, RefreshTokenExpiry}

(***************************************************************************)
(* Tokens.  A signed token is determined by its claims (HS256 over the     *)
(* same header and payload gives the same string), so a token is the       *)
(* record of its claims plus whether its signature verifies.               *)
(***************************************************************************)
MkToken(userId, username, type, iat, exp, ra) ==
    [userId |-> userId, username |-> username, type |-> type, iat |-> iat,
     exp |-> exp, recoveryAvailable |-> ra, iss |-> Issuer, aud |-> Audience,
     sigOk |-> TRUE]

\* A string that is no JWT at all: token.split(".")[1] is undefined.
Garbage ==
    [userId |-> "", username |-> "", type |-> "garbage", iat |-> 0, exp |-> 0,
     recoveryAvailable |-> FALSE, iss |-> "", aud |-> "", sigOk |-> FALSE]

\* The absence of a token in a result.
NoToken == [Garbage EXCEPT !.type = "null"]

\* A token whose payload was edited by its holder: the expiry is pushed out
\* and the signature no longer matches.
Forge(t) == [t EXCEPT !.exp = t.exp + RefreshTokenExpiry, !.sigOk = FALSE]

\* What a caller can present: the tokens it was given or junk, and copies
\* it has edited.
Presentable == issued \cup {Garbage}
Forged == {Forge(t) : t \in issued}

\* The outcome of an operation: its name, whether it succeeded, the error
\* message, the user it acted for, its string inputs, the tokens it was
\* given, the tokens it returned or set as cookies, the setEx calls it made.
Res(op, ok, err, who, input, args, out, writes) ==
    [op |-> op, ok |-> ok, err |-> err, who |-> who, input |-> input,
     args |-> args, out |-> out, writes |-> writes]

(***************************************************************************)
(* RedisManager (src/src/services/valkey.ts) on the blacklist keys.        *)
(***************************************************************************)
\* client.get(key): an entry answers until its TTL has run out.
BlacklistGet(t) ==
    t \in DOMAIN blacklist /\ now < blacklist[t]

\* Setex without effect: nothing is ever written.
SetexDropped(bl, t, seconds) == bl

\* RedisManager.setex: the error of an unreachable cache or of a
\* non-positive expire time is caught and false is returned.
Setex(bl, t, seconds) ==
    IF cacheUp /\ seconds > 0
    THEN [k \in DOMAIN bl \cup {t} |->
            IF k = t THEN now + seconds ELSE bl[k]]
    ELSE bl

(***************************************************************************)
(* tokenService (src/unnamed/part_010).                                    *)
(***************************************************************************)
\* jwtVerify(token, secretKey, {issuer, audience}): signature, issuer,
\* audience, and exp, which is rejected once exp <= now.
JwtVerify(t) ==
    t.sigOk /\ t.iss = Issuer /\ t.aud = Audience /\ now < t.exp

\* An isTokenBlacklisted that answers false when the cache cannot be asked.
IsTokenBlacklistedFailsOpen(t) ==
    IF ~cacheUp THEN [ok |-> TRUE, value |-> FALSE]
    ELSE [ok |-> TRUE, value |-> BlacklistGet(t)]

\* isTokenBlacklisted: throws when the cache cannot be asked.
IsTokenBlacklisted(t) ==
    IF ~cacheUp THEN [ok |-> FALSE, value |-> FALSE]
    ELSE [ok |-> TRUE, value |-> BlacklistGet(t)]

\* verifyToken: every failure leaves as Error("Invalid token").
VerifyToken(t) ==
    LET b == IsTokenBlacklisted(t) IN
    IF ~b.ok \/ b.value \/ ~JwtVerify(t)
    THEN [ok |-> FALSE, err |-> "Invalid token", payload |-> NoToken]
    ELSE [ok |-> TRUE, err |-> "", payload |-> t]

\* verifyTempToken: jwtVerify and the type marker; no blacklist lookup.
VerifyTempToken(t) ==
    IF JwtVerify(t) /\ t.type = "temp"
    THEN [ok |-> TRUE, err |-> "", payload |-> t]
    ELSE [ok |-> FALSE, err |-> "Invalid temporary token", payload |-> NoToken]

\* createTRPCContext: ctx.user is the payload verifyToken returns for the
\* accessToken cookie, or null.
CreateTRPCContext(t) ==
    LET v == VerifyToken(t) IN IF v.ok THEN v.payload ELSE NoToken

\* isAuthenticated: ctx.user is set and findById(ctx.user.userId) finds a user.
IsAuthenticated(ctxUser) ==
    /\ ctxUser # NoToken
    /\ ctxUser.userId \in UserIds
    /\ users[ctxUser.userId].exists

\* protectedRoute: the guard in front of every endpoint that needs a session.
ProtectedRoute(t) == IsAuthenticated(CreateTRPCContext(t))

\* tempAuthRoute (isTempAuthenticated): the bearer token passes verifyTempToken.
TempAuthRoute(t) == VerifyTempToken(t).ok

\* An access token that lives as long as a refresh token.
AccessTokenLongLived(u) ==
    MkToken(u, users[u].username, "none", now, now + RefreshTokenExpiry, FALSE)

\* generateTokenPair: the access token carries no type marker.
AccessTokenFor(u) ==
    MkToken(u, users[u].username, "none", now, now + AccessTokenExpiry, FALSE)
RefreshTokenFor(u) ==
    MkToken(u, users[u].username, "refresh", now, now + RefreshTokenExpiry,
            FALSE)

\* The history entry of a generateTokenPair(user) call.
PairFor(u) ==
    [userId |-> u, accessToken |-> AccessTokenFor(u),
     refreshToken |-> RefreshTokenFor(u), issuedAt |-> now]

\* generateTempToken(userId, "5m", recoveryAvailable): no username claim.
TempTokenFor(u, ra) ==
    MkToken(u, "", "temp", now, now + TempTokenExpiry, ra)

\* A refresh that copies the iat and exp of the refresh token.
RefreshKeepsExpiry(t) ==
    LET v == VerifyToken(t) IN
    IF ~v.ok \/ v.payload.type # "refresh"
    THEN [ok |-> FALSE, err |-> "Failed to refresh token", out |-> NoToken]
    ELSE [ok |-> TRUE, err |-> "",
          out |-> [v.payload EXCEPT !.type = "none"]]

\* A refresh that takes a token of any type.
RefreshAnyType(t) ==
    LET v == VerifyToken(t) IN
    IF ~v.ok
    THEN [ok |-> FALSE, err |-> "Failed to refresh token", out |-> NoToken]
    ELSE [ok |-> TRUE, err |-> "",
          out |-> [v.payload EXCEPT !.type = "none", !.iat = now,
                                    !.exp = now + AccessTokenExpiry]]

\* refreshAccessToken: the payload without its type marker, signed again
\* with a new iat and exp.  The inner Error("Invalid token type") is caught
\* by the same catch as a verification failure and leaves as
\* Error("Failed to refresh token").
RefreshAccessToken(t) ==
    LET v == VerifyToken(t) IN
    IF ~v.ok
    THEN [ok |-> FALSE, err |-> "Failed to refresh token", out |-> NoToken]
    ELSE IF v.payload.type # "refresh"
    THEN [ok |-> FALSE, err |-> "Failed to refresh token", out |-> NoToken]
    ELSE [ok |-> TRUE, err |-> "",
          out |-> [v.payload EXCEPT !.type = "none", !.iat = now,
                                    !.exp = now + AccessTokenExpiry]]

\* blacklistTokens without the timeDiff > 0 test.
BlacklistCallsNoGuard(t) ==
    IF t.type # "garbage" /\ t.exp # 0
    THEN {[token |-> t, ttl |-> t.exp - now]}
    ELSE {}

\* blacklistTokens with a TTL of fifteen minutes whatever the token's exp.
BlacklistCallsFixedTtl(t) ==
    IF t.type # "garbage" /\ t.exp # 0 /\ t.exp - now > 0
    THEN {[token |-> t, ttl |-> AccessTokenExpiry]}
    ELSE {}

\* blacklistTokens, one token: the setEx calls it makes (none or one).  The
\* payload is decoded without verification; a token without a payload
\* segment or without exp is passed over.
BlacklistCalls(t) ==
    IF t.type # "garbage" /\ t.exp # 0 /\ t.exp - now > 0
    THEN {[token |-> t, ttl |-> t.exp - now]}
    ELSE {}

RECURSIVE ApplySetex(_, _)
ApplySetex(bl, calls) ==
    IF calls = {} THEN bl
    ELSE LET c == CHOOSE x \in calls : TRUE
         IN ApplySetex(Setex(bl, c.token, c.ttl), calls \ {c})

\* A batch that is given up at the first token that cannot be decoded.
AllCallsFailFast(ts) ==
    UNION {BlacklistCalls(ts[i]) :
             i \in {j \in DOMAIN ts :
                      \A k \in 1..j : ts[k].type # "garbage" /\ ts[k].exp # 0}}

\* blacklistTokens, the whole list: every token is handled in a try/catch of
\* its own, so the calls are those of each token taken alone.
AllCalls(ts) == UNION {BlacklistCalls(ts[i]) : i \in DOMAIN ts}

\* A token with a decodable payload that has no exp claim.
NoExpClaim == [Garbage EXCEPT !.type = "none"]
Malformed == {Garbage, NoExpClaim}

\* The token lists a caller passes: one token, the two of a pair, or these
\* with a malformed token before, between or after them.
TokenLists == {<<t>> : t \in Presentable}
                \cup {<<p.accessToken, p.refreshToken>> : p \in pairs}
                \cup {<<m, p.refreshToken>> : m \in Malformed, p \in pairs}
                \cup {<<p.accessToken, m>> : m \in Malformed, p \in pairs}
                \cup {<<p.accessToken, Garbage, p.refreshToken>> : p \in pairs}

(***************************************************************************)
(* RedisManager on the rate-limit keys, and the RateLimiter.               *)
(***************************************************************************)
MaxAttempts == 5
WindowSeconds == 900

Origins == {"ip1"}
NoInfo == [attempts |-> 0, firstAttempt |-> 0, lastAttempt |-> 0,
           blocked |-> FALSE]

\* RedisManager.getRateLimit: the stored RateLimitInfo, or null when the key
\* is absent or expired or the cache cannot be asked.
GetRateLimit(rl, key) ==
    IF cacheUp /\ key \in DOMAIN rl /\ now < rl[key].expiresAt
    THEN rl[key].info
    ELSE NoInfo

\* setRateLimit with an expiry of one second whatever it is given.
SetRateLimitOneSecond(rl, key, info, seconds) ==
    IF cacheUp /\ seconds > 0
    THEN [k \in DOMAIN rl \cup {key} |->
            IF k = key THEN [info |-> info, expiresAt |-> now + 1]
            ELSE rl[k]]
    ELSE rl

\* RedisManager.setRateLimit: setEx(key, seconds, JSON.stringify(info)).
SetRateLimit(rl, key, info, seconds) ==
    IF cacheUp /\ seconds > 0
    THEN [k \in DOMAIN rl \cup {key} |->
            IF k = key THEN [info |-> info, expiresAt |-> now + seconds]
            ELSE rl[k]]
    ELSE rl

\* RedisManager.del.
Del(rl, key) ==
    IF cacheUp THEN [k \in DOMAIN rl \ {key} |-> rl[k]] ELSE rl

\* The cache key of a rate-limit record: origin and identity.
RateKey(origin, identity) == <<origin, identity>>

\* RateLimiter.isRateLimited: the answer and the cache after the call.
IsRateLimited(rl, origin, identity) ==
    LET key == RateKey(origin, identity)
        info == GetRateLimit(rl, key)
    IN IF info = NoInfo THEN [limited |-> FALSE, rl |-> rl]
       ELSE IF info.blocked THEN [limited |-> TRUE, rl |-> rl]
       ELSE IF info.attempts >= MaxAttempts
                /\ now - info.firstAttempt < WindowSeconds
       THEN [limited |-> TRUE,
             rl |-> SetRateLimit(rl, key, [info EXCEPT !.blocked = TRUE],
                                 WindowSeconds)]
       ELSE [limited |-> FALSE, rl |-> rl]

\* RateLimiter.trackAttempt: the cache after the call.
TrackAttempt(rl, origin, identity) ==
    LET key == RateKey(origin, identity)
        old == GetRateLimit(rl, key)
        cur == IF old = NoInfo
               THEN [attempts |-> 0, firstAttempt |-> now,
                     lastAttempt |-> now, blocked |-> FALSE]
               ELSE old
        new == [cur EXCEPT !.attempts = cur.attempts + 1,
                           !.lastAttempt = now,
                           !.blocked = cur.blocked
                                        \/ cur.attempts + 1 >= MaxAttempts]
    IN SetRateLimit(rl, key, new, WindowSeconds)

\* RateLimiter.resetAttempts.
ResetAttempts(rl, origin, identity) == Del(rl, RateKey(origin, identity))

\* History of the trackAttempt calls of a key: how many were made in a row,
\* each less than a window after the one before, since the last
\* resetAttempts, and when the last one was made.
NoTrack == [count |-> 0, last |-> 0]
TrackOf(tr, key) == IF key \in DOMAIN tr THEN tr[key] ELSE NoTrack
TrackedAfterTrack(tr, key) ==
    LET old == TrackOf(tr, key)
        n == IF old.count > 0 /\ now - old.last < WindowSeconds
             THEN old.count + 1 ELSE 1
    IN [k \in DOMAIN tr \cup {key} |->
            IF k = key THEN [count |-> n, last |-> now] ELSE tr[k]]
TrackedAfterReset(tr, key) == [k \in DOMAIN tr \ {key} |-> tr[k]]

(***************************************************************************)
(* Passwords and one-time codes.                                           *)
(***************************************************************************)
\* argon2.hash and argon2.verify: a hash verifies the password it was made of.
HashPassword(password) == <<"argon2", password>>
VerifyPassword(storedHash, providedPassword) ==
    storedHash = HashPassword(providedPassword)

GoodPassword == "Correct-horse-12!!"
BadPassword == "wrong"

\* The six-digit code of a secret at a time: one per 30-second step.
TotpPeriod == 30
TotpCode(secret, at) == <<secret, at \div TotpPeriod>>
BadCode == <<"", 0>>

\* totp.validate({ token }) !== null, for the stored secret.
TotpValidate(secret, code) == secret # "" /\ code = TotpCode(secret, now)

\* verifyTOTP(secret, code): the same validation, false on any error.
VerifyTOTP(secret, code) == TotpValidate(secret, code)

\* generateRecoveryCode: ten characters made of ten random bytes.  A seed
\* names one outcome of the random source; under "rr" the second code of a
\* set is made of the same bytes as the first.
GenerateRecoveryCode(seed, i) ==
    <<seed, IF seed = "rr" /\ i = 2 THEN 1 ELSE i>>

RecoveryCodeCount == 10

\* generateRecoveryCodes with a loop that stops one short.
GenerateNineCodes(seed) ==
    [i \in 1..(RecoveryCodeCount - 1) |-> GenerateRecoveryCode(seed, i)]

\* generateRecoveryCodes: ten codes, one after the other.
GenerateRecoveryCodes(seed) ==
    [i \in 1..RecoveryCodeCount |-> GenerateRecoveryCode(seed, i)]
BadRecoveryCode == <<"zz", 0>>

\* What a caller sends as recoveryCode: a code, a code with blanks around
\* it, or the empty string; String.prototype.trim takes the blanks off.
EmptyCode == <<"", 0>>
Padded(code) == <<"pad", code>>
Trim(input) == IF input[1] = "pad" THEN input[2] ELSE input

\* Array.prototype.includes and filter on the stored codes.
Includes(codes, c) == \E i \in DOMAIN codes : codes[i] = c
RECURSIVE Filter(_, _)
Filter(codes, c) ==
    IF codes = <<>> THEN <<>>
    ELSE IF Head(codes) = c THEN Filter(Tail(codes), c)
    ELSE <<Head(codes)>> \o Filter(Tail(codes), c)

(***************************************************************************)
(* The user store as UserService uses it.                                  *)
(***************************************************************************)
UserOfName(name) == {u \in UserIds : users[u].exists /\ users[u].username = name}

\* userRepo.enableTwoFactor(userId, secret, recoveryCodes, enabled).
RepoEnableTwoFactor(us, u, secret, codes, enabled) ==
    [us EXCEPT ![u].twoFactorSecret = secret, ![u].recoveryCodes = codes,
               ![u].twoFactorEnabled = enabled]

\* userRepo.updateUserRecoveryCodes(userId, codes).
RepoUpdateRecoveryCodes(us, u, codes) == [us EXCEPT ![u].recoveryCodes = codes]

\* enableTwoFactor without the test for a second factor already enabled.
ServiceEnableTwoFactorAgain(u, secret) ==
    IF ~users[u].exists THEN [err |-> "User not found", users |-> users]
    ELSE [err |-> "",
          users |-> RepoEnableTwoFactor(users, u, secret, <<>>, FALSE)]

\* UserService.enableTwoFactor: the error thrown ("" for none) and the store.
ServiceEnableTwoFactor(u, secret) ==
    IF ~users[u].exists THEN [err |-> "User not found", users |-> users]
    ELSE IF users[u].twoFactorEnabled
    THEN [err |-> "Two factor is already enabled", users |-> users]
    ELSE [err |-> "",
          users |-> RepoEnableTwoFactor(users, u, secret, <<>>, FALSE)]

\* verifyTwoFactor that enables the second factor whatever the code.
ServiceVerifyTwoFactorAnyCode(u, code, seed) ==
    IF ~users[u].exists
    THEN [err |-> "User not found", users |-> users, codes |-> <<>>]
    ELSE [err |-> "",
          users |-> RepoEnableTwoFactor(users, u, users[u].twoFactorSecret,
                                        GenerateRecoveryCodes(seed), TRUE),
          codes |-> GenerateRecoveryCodes(seed)]

\* UserService.verifyTwoFactor: the error thrown ("" for none), the store
\* and the recovery codes returned.
ServiceVerifyTwoFactor(u, code, seed) ==
    IF ~users[u].exists
    THEN [err |-> "User not found", users |-> users, codes |-> <<>>]
    ELSE IF users[u].twoFactorSecret = ""
    THEN [err |-> "Two factor setup not started", users |-> users,
          codes |-> <<>>]
    ELSE IF ~TotpValidate(users[u].twoFactorSecret, code)
    THEN [err |-> "Invalid verification code", users |-> users,
          codes |-> <<>>]
    ELSE [err |-> "",
          users |-> RepoEnableTwoFactor(users, u, users[u].twoFactorSecret,
                                        GenerateRecoveryCodes(seed), TRUE),
          codes |-> GenerateRecoveryCodes(seed)]

\* userRepo.disableTwoFactor(userId).
RepoDisableTwoFactor(us, u) ==
    [us EXCEPT ![u].twoFactorSecret = "", ![u].recoveryCodes = <<>>,
               ![u].twoFactorEnabled = FALSE]

\* disableTwoFactor without the password check.
ServiceDisableTwoFactorNoPassword(u, code, password) ==
    IF ~users[u].exists THEN [err |-> "User not found", users |-> users]
    ELSE IF users[u].twoFactorEnabled = FALSE
    THEN [err |-> "Two factor cannot be disable (not enabled)",
          users |-> users]
    ELSE IF ~VerifyTOTP(users[u].twoFactorSecret, code)
    THEN [err |-> "OTP cannot be verified", users |-> users]
    ELSE [err |-> "", users |-> RepoDisableTwoFactor(users, u)]

\* UserService.disableTwoFactor: the error thrown and the store.
ServiceDisableTwoFactor(u, code, password) ==
    IF ~users[u].exists THEN [err |-> "User not found", users |-> users]
    ELSE IF users[u].twoFactorEnabled = FALSE
    THEN [err |-> "Two factor cannot be disable (not enabled)",
          users |-> users]
    ELSE IF ~VerifyPassword(users[u].passwordHash, password)
    THEN [err |-> "Invalid password", users |-> users]
    ELSE IF ~VerifyTOTP(users[u].twoFactorSecret, code)
    THEN [err |-> "OTP cannot be verified", users |-> users]
    ELSE [err |-> "", users |-> RepoDisableTwoFactor(users, u)]

\* useRecoveryCode that throws when the code matches no stored code.
ServiceUseRecoveryCodeThrows(u, code) ==
    IF ~users[u].exists
    THEN [err |-> "User not found", value |-> FALSE, users |-> users]
    ELSE IF users[u].recoveryCodes = <<>>
    THEN [err |-> "Recovery authentication not available", value |-> FALSE,
          users |-> users]
    ELSE IF code = EmptyCode
    THEN [err |-> "No code provided", value |-> FALSE, users |-> users]
    ELSE IF Includes(users[u].recoveryCodes, Trim(code))
    THEN [err |-> "", value |-> TRUE,
          users |-> RepoUpdateRecoveryCodes(users, u,
                        Filter(users[u].recoveryCodes, Trim(code)))]
    ELSE [err |-> "Invalid recovery code", value |-> FALSE, users |-> users]

\* UserService.useRecoveryCode from the point where findById has answered
\* with the record `seen`: the error thrown, the boolean returned and the
\* store.  The write replaces the stored codes by the filtered codes of the
\* record that was read.
UseRecoveryCodeAfterRead(seen, u, code) ==
    IF ~seen.exists
    THEN [err |-> "User not found", value |-> FALSE, users |-> users]
    ELSE IF seen.recoveryCodes = <<>>
    THEN [err |-> "Recovery authentication not available", value |-> FALSE,
          users |-> users]
    ELSE IF code = EmptyCode
    THEN [err |-> "No code provided", value |-> FALSE, users |-> users]
    ELSE IF Includes(seen.recoveryCodes, Trim(code))
    THEN [err |-> "", value |-> TRUE,
          users |-> RepoUpdateRecoveryCodes(users, u,
                        Filter(seen.recoveryCodes, Trim(code)))]
    ELSE [err |-> "", value |-> FALSE, users |-> users]

\* UserService.useRecoveryCode run without interruption.
ServiceUseRecoveryCode(u, code) == UseRecoveryCodeAfterRead(users[u], u, code)

(***************************************************************************)
(* The initial state: an empty cache, no token signed yet.                 *)
(***************************************************************************)
\* The process before any client was asked for: `client` and `isConnected`
\* of RedisManager, `client` of the database module, `userService` of the
\* service module, how often connect was invoked on the client object each
\* variable holds, and whether that object's connection is established.
NoHandles ==
    [redisClient |-> FALSE, isConnected |-> FALSE, redisConnects |-> 0,
     redisOpen |-> FALSE,
     mongoClient |-> FALSE, mongoConnects |-> 0, mongoOpen |-> FALSE,
     userService |-> FALSE]

\* An optional Date field of the user record that is not set; a set one is
\* the one-element sequence of its time.
NoDate == <<>>

\* Two registered users without a second factor (createUser).
InitUsers ==
    [u \in UserIds |->
        [exists |-> TRUE, username |-> Username(u),
         passwordHash |-> HashPassword(GoodPassword),
         twoFactorEnabled |-> FALSE, twoFactorSecret |-> "",
         recoveryCodes |-> <<>>,
         email |-> Email(u), lastEmailChange |-> NoDate,
         lastPasswordChange |-> NoDate, lastUsernameChange |-> NoDate]]

Init ==
    /\ now = 0
    /\ ticks = 0
    /\ cacheUp = TRUE
    /\ users = InitUsers
    /\ issued = {}
    /\ pairs = {}
    /\ blacklist = <<>>
    /\ rateLimits = <<>>
    /\ tracked = <<>>
    /\ inflight = <<>>
    /\ handles = NoHandles
    /\ todos = {}
    /\ notes = {}
    /\ res = Res("init", TRUE, "", "", <<>>, <<>>, {}, {})

(***************************************************************************)
(* The clock advances.  A cache entry whose TTL has run out stays in the   *)
(* map as a record of the write, and no longer answers a get.              *)
(***************************************************************************)
Tick ==
    \E d \in Steps :
        /\ ticks < MaxTicks
        /\ now' = now + d
        /\ ticks' = ticks + 1
        /\ res' = Res("tick", TRUE, "", "", <<>>, <<>>, {}, {})
        /\ UNCHANGED <<handles, todos, notes, cacheUp, inflight, users, issued, pairs, blacklist, rateLimits,
                       tracked>>

(***************************************************************************)
(* Token service operations.                                               *)
(***************************************************************************)
GenerateTokenPair ==
    \E u \in TokenUsers :
        LET a == AccessTokenFor(u)
            r == RefreshTokenFor(u)
        IN /\ Cardinality(issued \cup {a, r}) <= MaxTokens
           /\ issued' = issued \cup {a, r}
           /\ pairs' = pairs \cup {PairFor(u)}
           /\ res' = Res("generateTokenPair", TRUE, "", u, <<>>, <<>>, {a, r}, {})
           /\ UNCHANGED <<handles, todos, notes, now, ticks, cacheUp, inflight, users, blacklist, rateLimits,
                          tracked>>

GenerateTempToken ==
    \E u \in TokenUsers, ra \in {FALSE} :
        LET t == TempTokenFor(u, ra)
        IN /\ Cardinality(issued \cup {t}) <= MaxTokens
           /\ issued' = issued \cup {t}
           /\ res' = Res("generateTempToken", TRUE, "", u, <<>>, <<>>, {t}, {})
           /\ UNCHANGED <<handles, todos, notes, now, ticks, cacheUp, inflight, users, pairs, blacklist,
                          rateLimits, tracked>>

DoVerifyToken ==
    \E t \in Presentable \cup Forged :
        LET v == VerifyToken(t)
        IN /\ res' = Res("verifyToken", v.ok, v.err, v.payload.userId, <<>>, <<t>>,
                         IF v.ok THEN {v.payload} ELSE {}, {})
           /\ UNCHANGED <<handles, todos, notes, now, ticks, cacheUp, inflight, users, issued, pairs,
                          blacklist, rateLimits, tracked>>

DoRefreshAccessToken ==
    \E t \in Presentable \cup Forged :
        LET r == RefreshAccessToken(t)
        IN /\ r.ok => Cardinality(issued \cup {r.out}) <= MaxTokens
           /\ issued' = IF r.ok THEN issued \cup {r.out} ELSE issued
           /\ res' = Res("refreshAccessToken", r.ok, r.err, t.userId, <<>>, <<t>>,
                         IF r.ok THEN {r.out} ELSE {}, {})
           /\ UNCHANGED <<handles, todos, notes, now, ticks, cacheUp, inflight, users, pairs, blacklist,
                          rateLimits, tracked>>

\* blacklistTokens; the outcome also notes which tokens of the list the
\* blacklist answered for before the call.
DoBlacklistTokens ==
    \E ts \in TokenLists :
        /\ blacklist' = ApplySetex(blacklist, AllCalls(ts))
        /\ res' = Res("blacklistTokens", TRUE, "", "", <<>>, ts, {}, AllCalls(ts))
                    @@ [revoked |-> {ts[i] : i \in {j \in DOMAIN ts :
                                                      BlacklistGet(ts[j])}}]
        /\ UNCHANGED <<handles, todos, notes, now, ticks, cacheUp, inflight, users, issued, pairs, rateLimits,
                       tracked>>

\* verifyTempToken, as tempAuthRoute calls it with the bearer token.
DoVerifyTempToken ==
    \E t \in Presentable :
        LET v == VerifyTempToken(t)
        IN /\ res' = Res("verifyTempToken", v.ok, v.err, v.payload.userId, <<>>,
                         <<t>>, IF v.ok THEN {v.payload} ELSE {}, {})
           /\ UNCHANGED <<handles, todos, notes, now, ticks, cacheUp, inflight, users, issued, pairs,
                          blacklist, rateLimits, tracked>>

\* A request to an endpoint behind protectedRoute that only reads (profile),
\* with t as the accessToken cookie.
ProtectedRequest ==
    \E t \in Presentable :
        /\ res' = Res("protectedRoute", ProtectedRoute(t),
                      IF ProtectedRoute(t) THEN "" ELSE "UNAUTHORIZED",
                      CreateTRPCContext(t).userId, <<>>, <<t>>, {}, {})
        /\ UNCHANGED <<handles, todos, notes, now, ticks, cacheUp, inflight, users, issued, pairs, blacklist,
                       rateLimits, tracked>>

NextToken ==
    \/ Tick
    \/ GenerateTokenPair
    \/ GenerateTempToken
    \/ DoVerifyToken
    \/ DoRefreshAccessToken
    \/ DoBlacklistTokens
    \/ ProtectedRequest
    \/ DoVerifyTempToken

SpecToken == Init /\ [][NextToken]_vars

(***************************************************************************)
(* The user router (src/src/server/routers/user.ts) and the UserService    *)
(* operations it rests on.                                                 *)
(***************************************************************************)
MaxFailedLogins == 1

Secrets == {"s1"}
Seeds == {"r1"}

\* The users whose second factor is set up in the login flow.
TwoFactorUsers == {"u2"}
\* The name and password pairs handed to login: each user with the right
\* password, one user with a wrong one, and a name nobody registered.
LoginInputs ==
    {<<Username(u), GoodPassword>> : u \in UserIds}
        \cup {<<"alice", BadPassword>>, <<"nobody", GoodPassword>>}

\* login without the twoFactorEnabled branch.
LoginTokensSkipSecondFactor(u) == {AccessTokenFor(u), RefreshTokenFor(u)}

\* userRouter.login after the password check: a user with twoFactorEnabled
\* gets a temp token that says whether recovery codes are stored, any
\* other user gets the token pair.
LoginTokens(u) ==
    IF users[u].twoFactorEnabled
    THEN {TempTokenFor(u, Len(users[u].recoveryCodes) > 0)}
    ELSE {AccessTokenFor(u), RefreshTokenFor(u)}

\* login that looks the user up and verifies the password before it asks
\* the rate limiter.
LoginLooksUpFirst(ip, name, password) ==
    LET lim == IsRateLimited(rateLimits, ip, name)
        found == UserOfName(name)
        u == CHOOSE x \in found : TRUE
        key == RateKey(ip, name)
    IN IF found # {} /\ VerifyPassword(users[u].passwordHash, password)
       THEN [ok |-> TRUE, err |-> "",
             rl |-> ResetAttempts(rateLimits, ip, name),
             tr |-> TrackedAfterReset(tracked, key),
             out |-> LoginTokens(u),
             pairs |-> IF AccessTokenFor(u) \in LoginTokens(u)
                       THEN {PairFor(u)} ELSE {},
             calls |-> <<"findByUsername", "verifyPassword",
                         "resetAttempts">>]
       ELSE IF lim.limited
       THEN [ok |-> FALSE,
             err |-> "TOO_MANY_REQUESTS: Too many login attempts. Please try again later.",
             rl |-> lim.rl, tr |-> tracked, out |-> {}, pairs |-> {},
             calls |-> <<"findByUsername", "isRateLimited">>]
       ELSE [ok |-> FALSE, err |-> "UNAUTHORIZED: Invalid password",
             rl |-> TrackAttempt(lim.rl, ip, name),
             tr |-> TrackedAfterTrack(tracked, key), out |-> {},
             pairs |-> {},
             calls |-> <<"findByUsername", "isRateLimited", "trackAttempt">>]

\* login that leaves the rate-limit record alone after a right password.
LoginKeepsAttempts(ip, name, password) ==
    LET lim == IsRateLimited(rateLimits, ip, name)
        found == UserOfName(name)
        u == CHOOSE x \in found : TRUE
        key == RateKey(ip, name)
    IN IF lim.limited
       THEN [ok |-> FALSE,
             err |-> "TOO_MANY_REQUESTS: Too many login attempts. Please try again later.",
             rl |-> lim.rl, tr |-> tracked, out |-> {}, pairs |-> {},
             calls |-> <<"isRateLimited">>]
       ELSE IF found = {}
       THEN [ok |-> FALSE, err |-> "UNAUTHORIZED: User doesn't exist",
             rl |-> TrackAttempt(lim.rl, ip, name),
             tr |-> TrackedAfterTrack(tracked, key), out |-> {},
             pairs |-> {},
             calls |-> <<"isRateLimited", "findByUsername", "trackAttempt">>]
       ELSE IF ~VerifyPassword(users[u].passwordHash, password)
       THEN [ok |-> FALSE, err |-> "UNAUTHORIZED: Invalid password",
             rl |-> TrackAttempt(lim.rl, ip, name),
             tr |-> TrackedAfterTrack(tracked, key), out |-> {},
             pairs |-> {},
             calls |-> <<"isRateLimited", "findByUsername",
                         "verifyPassword", "trackAttempt">>]
       ELSE [ok |-> TRUE, err |-> "",
             rl |-> lim.rl, tr |-> tracked,
             out |-> LoginTokens(u),
             pairs |-> IF AccessTokenFor(u) \in LoginTokens(u)
                       THEN {PairFor(u)} ELSE {},
             calls |-> <<"isRateLimited", "findByUsername",
                         "verifyPassword", "resetAttempts">>]

\* userRouter.login: the outcome, the cache after it, the tokens returned,
\* and the calls it made to the rate limiter, the user store and the
\* password verifier, in order.
Login(ip, name, password) ==
    LET lim == IsRateLimited(rateLimits, ip, name)
        found == UserOfName(name)
        u == CHOOSE x \in found : TRUE
        key == RateKey(ip, name)
    IN IF lim.limited
       THEN [ok |-> FALSE,
             err |-> "TOO_MANY_REQUESTS: Too many login attempts. Please try again later.",
             rl |-> lim.rl, tr |-> tracked, out |-> {}, pairs |-> {},
             calls |-> <<"isRateLimited">>]
       ELSE IF found = {}
       THEN [ok |-> FALSE, err |-> "UNAUTHORIZED: User doesn't exist",
             rl |-> TrackAttempt(lim.rl, ip, name),
             tr |-> TrackedAfterTrack(tracked, key), out |-> {},
             pairs |-> {},
             calls |-> <<"isRateLimited", "findByUsername", "trackAttempt">>]
       ELSE IF ~VerifyPassword(users[u].passwordHash, password)
       THEN [ok |-> FALSE, err |-> "UNAUTHORIZED: Invalid password",
             rl |-> TrackAttempt(lim.rl, ip, name),
             tr |-> TrackedAfterTrack(tracked, key), out |-> {},
             pairs |-> {},
             calls |-> <<"isRateLimited", "findByUsername",
                         "verifyPassword", "trackAttempt">>]
       ELSE [ok |-> TRUE, err |-> "",
             rl |-> ResetAttempts(lim.rl, ip, name),
             tr |-> TrackedAfterReset(tracked, key),
             out |-> LoginTokens(u),
             pairs |-> IF AccessTokenFor(u) \in LoginTokens(u)
                       THEN {PairFor(u)} ELSE {},
             calls |-> <<"isRateLimited", "findByUsername",
                         "verifyPassword", "resetAttempts">>]

\* The failed and refused logins whose record is still in the cache.
RECURSIVE SumAttempts(_, _)
SumAttempts(rl, keys) ==
    IF keys = {} THEN 0
    ELSE LET k == CHOOSE x \in keys : TRUE
         IN rl[k].info.attempts + SumAttempts(rl, keys \ {k})
FailedLogins == SumAttempts(rateLimits, DOMAIN rateLimits)

\* The attempts the record of a key holds; none when there is no record.
AttemptsOf(rl, key) ==
    IF GetRateLimit(rl, key) = NoInfo THEN 0 ELSE GetRateLimit(rl, key).attempts

\* What a login call leaves behind; the outcome also notes the calls made
\* and the attempts the caller's record held before.
LoginEffect(ip, name, password) ==
    LET r == Login(ip, name, password)
    IN /\ rateLimits' = r.rl
       /\ tracked' = r.tr
       /\ issued' = issued \cup r.out
       /\ pairs' = pairs \cup r.pairs
       /\ res' = Res("login", r.ok, r.err, name, <<ip, name, password>>,
                     <<>>, r.out, {})
                    @@ [calls |-> r.calls,
                        attempts |-> AttemptsOf(rateLimits, RateKey(ip, name))]
       /\ UNCHANGED <<handles, todos, notes, now, ticks, cacheUp, inflight, users, blacklist>>

\* In the login flow every name handed to login is registered.
KnownLoginInputs == {cred \in LoginInputs : cred[1] # "nobody"}

DoLogin ==
    \E ip \in Origins, cred \in KnownLoginInputs :
        LET name == cred[1]
            password == cred[2]
            r == Login(ip, name, password)
        IN /\ Cardinality(issued \cup r.out) <= MaxTokens
           /\ ~r.ok => FailedLogins < MaxFailedLogins
           /\ LoginEffect(ip, name, password)

\* UserService.enableTwoFactor, called for a user (the router's
\* enableTwoFactor passes ctx.user.userId).
EnableTwoFactorStep(u, secret) ==
    LET r == ServiceEnableTwoFactor(u, secret)
    IN /\ users' = r.users
       /\ res' = Res("service.enableTwoFactor", r.err = "", r.err, u,
                     <<u, secret>>, <<>>, {}, {})
       /\ UNCHANGED <<handles, todos, notes, now, ticks, cacheUp, inflight, issued, pairs,
                      blacklist, rateLimits, tracked>>

DoEnableTwoFactor ==
    \E u \in TwoFactorUsers, secret \in Secrets :
        EnableTwoFactorStep(u, secret)

\* The codes a caller may type: the right one for now, or a wrong one.
CodesFor(u) == {TotpCode(users[u].twoFactorSecret, now), BadCode}

\* UserService.verifyTwoFactor, called for a user.
VerifyTwoFactorStep(u, code, seed) ==
    LET r == ServiceVerifyTwoFactor(u, code, seed)
    IN /\ users' = r.users
       /\ res' = Res("service.verifyTwoFactor", r.err = "", r.err, u,
                     <<u, code>>, <<>>, {}, {}) @@ [ret |-> r.codes]
       /\ UNCHANGED <<handles, todos, notes, now, ticks, cacheUp, inflight, issued, pairs,
                      blacklist, rateLimits, tracked>>

DoServiceVerifyTwoFactor ==
    \E u \in TwoFactorUsers, seed \in Seeds :
        \E code \in CodesFor(u) :
            VerifyTwoFactorStep(u, code, seed)

\* userRouter.verifyTwoFactor behind tempAuthRoute, t being the bearer token.
\* Of what UserService.verifyTwoFactor returns the handler reads `verified`
\* only; `ret` is the recovery codes in its response, { verified: true }.
RouterVerifyTwoFactor(t, code, seed) ==
    LET v == VerifyTempToken(t)
        u == v.payload.userId
        r == ServiceVerifyTwoFactor(u, code, seed)
    IN IF ~v.ok
       THEN [ok |-> FALSE, err |-> "UNAUTHORIZED: Invalid token",
             users |-> users, out |-> {}, pairs |-> {}, ret |-> <<>>]
       ELSE IF r.err # ""
       THEN [ok |-> FALSE, err |-> "INTERNAL_SERVER_ERROR: " \o r.err,
             users |-> users, out |-> {}, pairs |-> {}, ret |-> <<>>]
       ELSE [ok |-> TRUE, err |-> "", users |-> r.users,
             out |-> {AccessTokenFor(u), RefreshTokenFor(u)},
             pairs |-> {PairFor(u)}, ret |-> <<>>]

TempUserOf(t) == IF t.userId \in UserIds THEN t.userId ELSE "u1"

DoRouterVerifyTwoFactor ==
    \E t \in Presentable, seed \in Seeds :
        \E code \in CodesFor(TempUserOf(t)) :
            LET r == RouterVerifyTwoFactor(t, code, seed)
            IN /\ Cardinality(issued \cup r.out) <= MaxTokens
               /\ users' = r.users
               /\ issued' = issued \cup r.out
               /\ pairs' = pairs \cup r.pairs
               /\ res' = Res("verifyTwoFactor", r.ok, r.err, t.userId,
                             <<code>>, <<t>>, r.out, {}) @@ [ret |-> r.ret]
               /\ UNCHANGED <<handles, todos, notes, now, ticks, cacheUp, inflight, blacklist, rateLimits,
                              tracked>>

\* userRouter.useRecoveryCode behind tempAuthRoute.
RouterUseRecoveryCode(t, code) ==
    LET v == VerifyTempToken(t)
        u == v.payload.userId
        r == ServiceUseRecoveryCode(u, code)
    IN IF ~v.ok
       THEN [ok |-> FALSE, err |-> "UNAUTHORIZED: Invalid token",
             users |-> users, out |-> {}, pairs |-> {}]
       ELSE IF r.err # ""
       THEN [ok |-> FALSE, err |-> "INTERNAL_SERVER_ERROR: " \o r.err,
             users |-> users, out |-> {}, pairs |-> {}]
       ELSE IF ~r.value
       THEN [ok |-> FALSE, err |-> "BAD_REQUEST: Invalid recovery code",
             users |-> users, out |-> {}, pairs |-> {}]
       ELSE [ok |-> TRUE, err |-> "", users |-> r.users,
             out |-> {AccessTokenFor(u), RefreshTokenFor(u)},
             pairs |-> {PairFor(u)}]

\* The recovery codes a caller may type: the first one stored, or a wrong one.
RecoveryInputs(u) ==
    {BadRecoveryCode} \cup
        (IF users[u].recoveryCodes = <<>> THEN {}
         ELSE {Head(users[u].recoveryCodes)})

DoRouterUseRecoveryCode ==
    \E t \in Presentable :
        \E code \in RecoveryInputs(TempUserOf(t)) :
            LET r == RouterUseRecoveryCode(t, code)
            IN /\ Cardinality(issued \cup r.out) <= MaxTokens
               /\ users' = r.users
               /\ issued' = issued \cup r.out
               /\ pairs' = pairs \cup r.pairs
               /\ res' = Res("useRecoveryCode", r.ok, r.err, t.userId, <<>>,
                             <<t>>, r.out, {})
               /\ UNCHANGED <<handles, todos, notes, now, ticks, cacheUp, inflight, blacklist, rateLimits,
                              tracked>>

\* The clock of the login flow advances by the life of a temp token.
AuthSteps == {TempTokenExpiry}

TickAuth ==
    \E d \in AuthSteps :
        /\ ticks < MaxTicks
        /\ now' = now + d
        /\ ticks' = ticks + 1
        /\ res' = Res("tick", TRUE, "", "", <<>>, <<>>, {}, {})
        /\ UNCHANGED <<handles, todos, notes, cacheUp, inflight, users, issued, pairs, blacklist, rateLimits,
                       tracked>>

\* The login flow starts from two registered users; the second one either
\* has no second factor yet or has it enabled with every recovery code used.
UsedUpUser(u) ==
    [InitUsers[u] EXCEPT !.twoFactorEnabled = TRUE, !.twoFactorSecret = "s1"]

InitAuth ==
    /\ now = 0
    /\ ticks = 0
    /\ cacheUp = TRUE
    /\ users \in {InitUsers, [InitUsers EXCEPT !["u2"] = UsedUpUser("u2")]}
    /\ issued = {}
    /\ pairs = {}
    /\ blacklist = <<>>
    /\ rateLimits = <<>>
    /\ tracked = <<>>
    /\ inflight = <<>>
    /\ handles = NoHandles
    /\ todos = {}
    /\ notes = {}
    /\ res = Res("init", TRUE, "", "", <<>>, <<>>, {}, {})

NextAuth ==
    \/ TickAuth
    \/ DoLogin
    \/ DoEnableTwoFactor
    \/ DoServiceVerifyTwoFactor
    \/ DoRouterVerifyTwoFactor
    \/ DoRouterUseRecoveryCode
    \/ ProtectedRequest

SpecAuth == InitAuth /\ [][NextAuth]_vars

(***************************************************************************)
(* The second factor of one user at the UserService: enrollment, disabling *)
(* and recovery codes, called in any order.                                *)
(***************************************************************************)
EnrollSecrets == {"s1", "s2"}
EnrollSeeds == {"r1", "rr"}
EnrollPasswords == {GoodPassword, BadPassword}

\* The codes a caller may type where a six-digit code is asked: the one of
\* this time step, the one of the step before, a wrong one, or the first
\* recovery code stored.
EnrollCodes(u) ==
    {TotpCode(users[u].twoFactorSecret, now),
     TotpCode(users[u].twoFactorSecret, now - TotpPeriod), BadCode}
        \cup (IF users[u].recoveryCodes = <<>> THEN {}
              ELSE {Head(users[u].recoveryCodes)})

\* What a caller may send as recovery code: the first code stored, bare or
\* with blanks around it, a code that is not stored, nothing, or only blanks.
RecoveryTries(u) ==
    {BadRecoveryCode, EmptyCode, Padded(EmptyCode)}
        \cup (IF users[u].recoveryCodes = <<>> THEN {}
              ELSE {Head(users[u].recoveryCodes),
                    Padded(Head(users[u].recoveryCodes))})

EnrollEnable ==
    \E u \in TwoFactorUsers, secret \in EnrollSecrets :
        EnableTwoFactorStep(u, secret)

EnrollVerify ==
    \E u \in TwoFactorUsers, seed \in EnrollSeeds :
        \E code \in EnrollCodes(u) :
            VerifyTwoFactorStep(u, code, seed)

EnrollDisable ==
    \E u \in TwoFactorUsers, password \in EnrollPasswords :
        \E code \in EnrollCodes(u) :
            LET r == ServiceDisableTwoFactor(u, code, password)
            IN /\ users' = r.users
               /\ res' = Res("service.disableTwoFactor", r.err = "", r.err,
                             u, <<u, code, password>>, <<>>, {}, {})
               /\ UNCHANGED <<handles, todos, notes, now, ticks, cacheUp, inflight, issued, pairs,
                              blacklist, rateLimits, tracked>>

EnrollUseRecoveryCode ==
    \E u \in TwoFactorUsers :
        \E code \in RecoveryTries(u) :
            LET r == ServiceUseRecoveryCode(u, code)
            IN /\ users' = r.users
               /\ res' = Res("service.useRecoveryCode", r.err = "", r.err,
                             u, <<u, code>>, <<>>, {}, {})
                            @@ [ret |-> r.value]
               /\ UNCHANGED <<handles, todos, notes, now, ticks, cacheUp, inflight, issued, pairs,
                              blacklist, rateLimits, tracked>>

\* The clock advances by one TOTP period.
TickEnroll ==
    /\ ticks < MaxTicks
    /\ now' = now + TotpPeriod
    /\ ticks' = ticks + 1
    /\ res' = Res("tick", TRUE, "", "", <<>>, <<>>, {}, {})
    /\ UNCHANGED <<handles, todos, notes, cacheUp, inflight, users, issued, pairs, blacklist,
                   rateLimits, tracked>>

NextEnroll ==
    \/ TickEnroll
    \/ EnrollEnable
    \/ EnrollVerify
    \/ EnrollDisable
    \/ EnrollUseRecoveryCode

SpecEnroll == Init /\ [][NextEnroll]_vars

(***************************************************************************)
(* Two callers in userRouter.useRecoveryCode for the same user at once.    *)
(* Each call is two steps, as the handler awaits the store twice: the read *)
(* of the user record, and everything from the answer of that read on.     *)
(***************************************************************************)
Callers == {"p1", "p2"}
RaceUser == "u2"

\* The user has finished enrollment and holds ten distinct recovery codes.
EnrolledUser(u) ==
    [InitUsers[u] EXCEPT !.twoFactorEnabled = TRUE, !.twoFactorSecret = "s1",
                         !.recoveryCodes = GenerateRecoveryCodes("r1")]

InitRace ==
    /\ now = 0
    /\ ticks = 0
    /\ cacheUp = TRUE
    /\ users = [InitUsers EXCEPT ![RaceUser] = EnrolledUser(RaceUser)]
    /\ issued = {}
    /\ pairs = {}
    /\ blacklist = <<>>
    /\ rateLimits = <<>>
    /\ tracked = <<>>
    /\ inflight = <<>>
    /\ handles = NoHandles
    /\ todos = {}
    /\ notes = {}
    /\ res = Res("init", TRUE, "", "", <<>>, <<>>, {}, {})

\* What the two callers may send: what one caller may send, or the second
\* code stored.
RaceTries(u) ==
    RecoveryTries(u)
        \cup (IF Len(users[u].recoveryCodes) < 2 THEN {}
              ELSE {users[u].recoveryCodes[2]})

\* userService.useRecoveryCode up to the answer of userRepo.findById.
RaceRead ==
    \E p \in Callers \ DOMAIN inflight :
        \E code \in RaceTries(RaceUser) :
            /\ inflight' = inflight @@
                    (p :> [pc |-> "read", code |-> code,
                           seen |-> users[RaceUser], value |-> FALSE])
            /\ res' = Res("useRecoveryCode.findById", TRUE, "", p,
                          <<RaceUser, code>>, <<>>, {}, {})
            /\ UNCHANGED <<handles, todos, notes, now, ticks, cacheUp, users, issued, pairs,
                           blacklist, rateLimits, tracked>>

\* The rest of the call: the tests on the record read, the write of the
\* filtered codes, and in the router the token pair for a call that
\* returned true.
RaceFinish ==
    \E p \in DOMAIN inflight :
        LET c == inflight[p]
            u == RaceUser
            r == UseRecoveryCodeAfterRead(c.seen, u, c.code)
            out == IF r.err = "" /\ r.value
                   THEN {AccessTokenFor(u), RefreshTokenFor(u)} ELSE {}
        IN /\ c.pc = "read"
           /\ users' = r.users
           /\ issued' = issued \cup out
           /\ pairs' = pairs \cup (IF out = {} THEN {} ELSE {PairFor(u)})
           /\ inflight' = [inflight EXCEPT ![p].pc = "returned",
                                           ![p].value = r.err = "" /\ r.value]
           /\ res' = Res("useRecoveryCode", r.err = "" /\ r.value, r.err, p,
                         <<u, c.code>>, <<>>, out, {})
           /\ UNCHANGED <<handles, todos, notes, now, ticks, cacheUp, blacklist, rateLimits,
                          tracked>>

NextRace ==
    \/ RaceRead
    \/ RaceFinish

SpecRace == InitRace /\ [][NextRace]_vars

(***************************************************************************)
(* Claims about the token service, checked under SpecToken.                *)
(***************************************************************************)
\* The access token of a generateTokenPair call, if t is one.
PairsOfAccess(t) == {p \in pairs : p.accessToken = t}
PairsOfRefresh(t) == {p \in pairs : p.refreshToken = t}

\* C1: once blacklistTokens(ts) has completed, every token of ts whose
\* signature, issuer, audience and expiry are still valid is reported
\* blacklisted and verifyToken fails on it with "Invalid token".
C1_RevokedIsRejected ==
    res.op = "blacklistTokens" =>
        \A i \in DOMAIN res.args :
            JwtVerify(res.args[i]) =>
                /\ IsTokenBlacklisted(res.args[i]).ok
                /\ IsTokenBlacklisted(res.args[i]).value
                /\ ~VerifyToken(res.args[i]).ok
                /\ VerifyToken(res.args[i]).err = "Invalid token"

C1_Witness ==
    /\ res.op = "blacklistTokens"
    /\ \E i \in DOMAIN res.args :
        /\ JwtVerify(res.args[i])
        /\ IsTokenBlacklisted(res.args[i]).value
        /\ ~VerifyToken(res.args[i]).ok

\* C3: a refresh token presented as the accessToken cookie is never let
\* through protectedRoute.
C3_RefreshNeverAuthorizes ==
    (res.op = "protectedRoute" /\ res.args[1].type = "refresh") => ~res.ok

\* C5: verifyToken on the access token of generateTokenPair(U) succeeds and
\* returns U's userId at any time before issue time + 15 minutes while the
\* token is not blacklisted, and fails with "Invalid token" from then on.
C5_IssueVerifyRoundTrip ==
    res.op = "verifyToken" =>
        \A p \in PairsOfAccess(res.args[1]) :
            /\ (now < p.issuedAt + AccessTokenExpiry
                    /\ ~BlacklistGet(res.args[1]))
                => (res.ok /\ res.who = p.userId
                        /\ res.out = {p.accessToken})
            /\ now >= p.issuedAt + AccessTokenExpiry
                => (~res.ok /\ res.err = "Invalid token")

C5_Witness ==
    /\ res.op = "verifyToken"
    /\ res.ok
    /\ \E p \in PairsOfAccess(res.args[1]) :
        /\ now > p.issuedAt
        /\ res.who = p.userId

\* C6: blacklistTokens never calls setEx with a zero or negative TTL; when
\* every token passed has exp at or before the current time, it makes no
\* cache write and the blacklist is as it was.
C6_NoNonPositiveTtl ==
    [][res'.op = "blacklistTokens" =>
        /\ \A w \in res'.writes : w.ttl > 0
        /\ \A i \in DOMAIN res'.args :
            res'.args[i].exp <= now =>
                \A w \in res'.writes : w.token # res'.args[i]
        /\ (\A i \in DOMAIN res'.args : res'.args[i].exp <= now)
            => (res'.writes = {} /\ blacklist' = blacklist)]_vars

C6_Witness ==
    /\ res.op = "blacklistTokens"
    /\ res.writes = {}
    /\ \E i \in DOMAIN res.args :
        /\ res.args[i] \in issued
        /\ res.args[i].exp <= now

\* C7: an entry is written with TTL = exp - now, so it ends exactly when the
\* token expires, and verifyToken fails on a token at every time after an
\* entry was written for it.
C7_RevocationLastsToExpiry ==
    /\ res.op = "blacklistTokens" =>
        \A w \in res.writes :
            /\ w.ttl = w.token.exp - now
            /\ w.token \in DOMAIN blacklist
    /\ \A t \in DOMAIN blacklist :
        /\ blacklist[t] = t.exp
        /\ ~VerifyToken(t).ok

C7_Witness ==
    \E t \in DOMAIN blacklist :
        /\ t \in issued
        /\ now >= blacklist[t]
        /\ ticks > 0
        /\ res.op = "verifyToken"
        /\ res.args[1] = t
        /\ ~res.ok

\* C8: refreshAccessToken on a token that passes verifyToken but is not of
\* type "refresh" fails with the error "Invalid token type", and mints
\* nothing.
C8_WrongTypeIsDistinguished ==
    (res.op = "refreshAccessToken" /\ VerifyToken(res.args[1]).ok
        /\ res.args[1].type # "refresh")
    => (~res.ok /\ res.err = "Invalid token type" /\ res.out = {})

\* C9 as claimed: the token refreshAccessToken(R) returns expires later than
\* the access token issued with R and passes verifyToken.
C9_Original ==
    (res.op = "refreshAccessToken" /\ res.ok) =>
        \A t \in res.out :
            /\ VerifyToken(t).ok
            /\ \A p \in PairsOfRefresh(res.args[1]) :
                t.exp > p.accessToken.exp

\* C9 as amended: the returned token carries R's userId and username and no
\* type marker and expires at now + 15 minutes, which is never earlier than
\* the expiry of the access token issued with R and later whenever the
\* refresh happens after the second R was issued in; verifyToken accepts it
\* unless that very token is blacklisted; R is left as it was, so
\* refreshAccessToken(R) succeeds again; and refreshAccessToken fails on
\* every token a blacklist entry was written for.
C9_RefreshMintsAccessToken ==
    /\ (res.op = "refreshAccessToken" /\ res.ok) =>
        /\ res.args[1].type = "refresh"
        /\ RefreshAccessToken(res.args[1]).ok
        /\ \A t \in res.out :
            /\ t.userId = res.args[1].userId
            /\ t.username = res.args[1].username
            /\ t.type = "none"
            /\ t.exp = now + AccessTokenExpiry
            /\ t \in issued
            /\ VerifyToken(t).ok <=> ~BlacklistGet(t)
            /\ \A p \in PairsOfRefresh(res.args[1]) :
                /\ t.exp >= p.accessToken.exp
                /\ now > p.issuedAt => t.exp > p.accessToken.exp
    /\ \A t \in DOMAIN blacklist : ~RefreshAccessToken(t).ok

C9_Witness ==
    /\ res.op = "refreshAccessToken"
    /\ res.ok
    /\ \E t \in res.out, p \in PairsOfRefresh(res.args[1]) :
        /\ t.exp > p.accessToken.exp
        /\ VerifyToken(t).ok
        /\ p.accessToken \in DOMAIN blacklist

(***************************************************************************)
(* The rate limiter on its own: its three operations called for any key,   *)
(* and the clock.                                                          *)
(***************************************************************************)
\* trackAttempt is called at most this many times in a row for one key.
MaxTracked == 7
RateIdentities == {"alice", "bob"}
RateSteps == {1, WindowSeconds}

DoIsRateLimited ==
    \E origin \in Origins, identity \in RateIdentities :
        LET r == IsRateLimited(rateLimits, origin, identity)
        IN /\ rateLimits' = r.rl
           /\ res' = Res("isRateLimited", TRUE, "", identity, <<>>,
                         <<origin, identity>>, {r.limited}, {})
           /\ UNCHANGED <<handles, todos, notes, now, ticks, cacheUp, inflight, users, issued, pairs,
                          blacklist, tracked>>

DoTrackAttempt ==
    \E origin \in Origins, identity \in RateIdentities :
        LET key == RateKey(origin, identity)
        IN /\ TrackOf(tracked, key).count < MaxTracked
           /\ rateLimits' = TrackAttempt(rateLimits, origin, identity)
           /\ tracked' = TrackedAfterTrack(tracked, key)
           /\ res' = Res("trackAttempt", TRUE, "", identity, <<>>,
                         <<origin, identity>>, {}, {})
           /\ UNCHANGED <<handles, todos, notes, now, ticks, cacheUp, inflight, users, issued, pairs,
                          blacklist>>

DoResetAttempts ==
    \E origin \in Origins, identity \in RateIdentities :
        LET key == RateKey(origin, identity)
        IN /\ rateLimits' = ResetAttempts(rateLimits, origin, identity)
           /\ tracked' = TrackedAfterReset(tracked, key)
           /\ res' = Res("resetAttempts", TRUE, "", identity, <<>>,
                         <<origin, identity>>, {}, {})
           /\ UNCHANGED <<handles, todos, notes, now, ticks, cacheUp, inflight, users, issued, pairs,
                          blacklist>>

TickRate ==
    \E d \in RateSteps :
        /\ ticks < MaxTicks
        /\ now' = now + d
        /\ ticks' = ticks + 1
        /\ res' = Res("tick", TRUE, "", "", <<>>, <<>>, {}, {})
        /\ UNCHANGED <<handles, todos, notes, cacheUp, inflight, users, issued, pairs, blacklist, rateLimits,
                       tracked>>

NextRate ==
    \/ TickRate
    \/ DoIsRateLimited
    \/ DoTrackAttempt
    \/ DoResetAttempts

SpecRate == Init /\ [][NextRate]_vars

(***************************************************************************)
(* Login on its own, attempt after attempt from one origin.                *)
(***************************************************************************)
DoLoginAgain ==
    \E ip \in Origins, cred \in LoginInputs :
        LET name == cred[1]
            password == cred[2]
            r == Login(ip, name, password)
        IN /\ Cardinality(issued \cup r.out) <= MaxTokens
           /\ TrackOf(r.tr, RateKey(ip, name)).count <= MaxTracked
           /\ LoginEffect(ip, name, password)

TickLogin ==
    \E d \in RateSteps :
        /\ ticks < MaxTicks
        /\ now' = now + d
        /\ ticks' = ticks + 1
        /\ res' = Res("tick", TRUE, "", "", <<>>, <<>>, {}, {})
        /\ UNCHANGED <<handles, todos, notes, cacheUp, inflight, users, issued, pairs, blacklist,
                       rateLimits, tracked>>

NextLogin ==
    \/ TickLogin
    \/ DoLoginAgain

SpecLogin == Init /\ [][NextLogin]_vars

(***************************************************************************)
(* Claims about login and the rate limiter, checked under SpecLogin.       *)
(***************************************************************************)
TooManyLogins ==
    "TOO_MANY_REQUESTS: Too many login attempts. Please try again later."

\* C11: login asks the rate limiter before it looks the user up or verifies
\* the password; once MaxAttempts failed logins of one origin for one
\* username lie less than a window back, the next login for that pair is
\* refused as rate limited, having made no other call than isRateLimited,
\* whatever the password, and the record still blocks afterwards.
C11_RateLimitComesFirst ==
    [][res'.op = "login" =>
        LET ip == res'.input[1]
            name == res'.input[2]
            h == TrackOf(tracked, RateKey(ip, name))
            limited == IsRateLimited(rateLimits, ip, name).limited
        IN /\ Head(res'.calls) = "isRateLimited"
           /\ (h.count >= MaxAttempts /\ now - h.last < WindowSeconds)
                => limited
           /\ limited =>
                /\ ~res'.ok
                /\ res'.err = TooManyLogins
                /\ res'.calls = <<"isRateLimited">>
                /\ res'.out = {}
                /\ issued' = issued
                /\ tracked' = tracked
                /\ IsRateLimited(rateLimits', ip, name).limited]_vars

\* MaxAttempts logins with a wrong password have failed for one username,
\* and a login with the right password has just been refused.
C11_Witness ==
    /\ res.op = "login"
    /\ res.err = TooManyLogins
    /\ res.input[3] = GoodPassword
    /\ UserOfName(res.input[2]) # {}
    /\ TrackOf(tracked, RateKey(res.input[1], res.input[2])).count
            = MaxAttempts

\* C12: a login for a name nobody registered and a login for a registered
\* name with a wrong password, neither of them rate limited, give the
\* caller the same error, and both call trackAttempt.
C12_FailureCauseHidden ==
    \A ip \in Origins, known \in UserIds :
        LET unknown == Login(ip, "nobody", BadPassword)
            wrong == Login(ip, Username(known), BadPassword)
            Tracks(r) == \E i \in DOMAIN r.calls : r.calls[i] = "trackAttempt"
        IN (unknown.err # TooManyLogins /\ wrong.err # TooManyLogins)
            => /\ ~unknown.ok
               /\ ~wrong.ok
               /\ Tracks(unknown)
               /\ Tracks(wrong)
               /\ unknown.err = wrong.err

(***************************************************************************)
(* Claims about the login flow, checked under SpecAuth.                    *)
(***************************************************************************)
SessionTypes == {"none", "refresh"}

\* C2: a temp token is never let through protectedRoute, and a session
\* access token is never let through tempAuthRoute.
C2_TempAndSessionKeptApart ==
    /\ (res.op = "protectedRoute" /\ res.args[1].type = "temp") => ~res.ok
    /\ (res.op \in {"verifyTwoFactor", "useRecoveryCode"}
            /\ res.args[1].type = "none") => ~res.ok

\* C4: a login with the right password that is not rate limited succeeds;
\* for a user without twoFactorEnabled it returns exactly the access and
\* refresh token of that user and no temp token; for a user with
\* twoFactorEnabled it returns exactly one temp token whose
\* recoveryAvailable says whether recovery codes are stored, and signs no
\* access or refresh token; and an access or refresh token for a user with
\* twoFactorEnabled is only ever signed by a verifyTwoFactor or
\* useRecoveryCode call that succeeds.
C4_LoginStateMachine ==
    [][/\ res'.op = "login" =>
            LET ip == res'.input[1]
                name == res'.input[2]
                password == res'.input[3]
            IN \A u \in UserOfName(name) :
                (VerifyPassword(users[u].passwordHash, password)
                    /\ ~IsRateLimited(rateLimits, ip, name).limited)
                => /\ res'.ok
                   /\ \A t \in res'.out : t.userId = u /\ t.iat = now
                   /\ ~users[u].twoFactorEnabled =>
                        /\ {t.type : t \in res'.out} = SessionTypes
                        /\ Cardinality(res'.out) = 2
                   /\ users[u].twoFactorEnabled =>
                        /\ Cardinality(res'.out) = 1
                        /\ \A t \in res'.out :
                            /\ t.type = "temp"
                            /\ t.recoveryAvailable
                                = (users[u].recoveryCodes # <<>>)
                        /\ \A t \in issued' \ issued : t.type = "temp"
       /\ \A t \in issued' \ issued :
            (t.type \in SessionTypes /\ users[t.userId].twoFactorEnabled)
            => (res'.op \in {"verifyTwoFactor", "useRecoveryCode"}
                    /\ res'.ok)]_vars

\* A user with twoFactorEnabled has logged in, been given a temp token, and
\* a later verifyTwoFactor with that token has signed the session tokens.
C4_Witness ==
    /\ res.op = "verifyTwoFactor"
    /\ res.ok
    /\ res.args[1].type = "temp"
    /\ res.args[1].recoveryAvailable
    /\ users[res.args[1].userId].twoFactorEnabled
    /\ {t.type : t \in res.out} = SessionTypes

\* C13: a verifyTwoFactor or useRecoveryCode call of an authenticated
\* caller that fails on a wrong code is counted by the rate limiter: it
\* calls trackAttempt, so that the record of the caller grows.
C13_FailedCodesAreTracked ==
    [][(/\ res'.op \in {"verifyTwoFactor", "useRecoveryCode"}
        /\ ~res'.ok
        /\ VerifyTempToken(res'.args[1]).ok)
       => (tracked' # tracked /\ rateLimits' # rateLimits)]_vars

(***************************************************************************)
(* Claims about the rate limiter, checked under SpecRate.                  *)
(***************************************************************************)
\* C10: once more than MaxAttempts trackAttempt calls have been made for a
\* key, each less than a window after the one before and with no
\* resetAttempts in between, isRateLimited answers true for that key as
\* long as less than a window has passed since the last of them; after a
\* resetAttempts, or once a whole window has passed since the last tracked
\* attempt, it answers false.
C10_LimitedUntilResetOrWindow ==
    \A origin \in Origins, identity \in RateIdentities :
        LET h == TrackOf(tracked, RateKey(origin, identity))
            limited == IsRateLimited(rateLimits, origin, identity).limited
            asked == res.op = "isRateLimited"
                        /\ res.args = <<origin, identity>>
        IN /\ (h.count > MaxAttempts /\ now - h.last < WindowSeconds)
                => (limited /\ (asked => res.out = {TRUE}))
           /\ (h.count = 0 \/ now - h.last >= WindowSeconds)
                => (~limited /\ (asked => res.out = {FALSE}))

\* More than MaxAttempts attempts were tracked for a key, time has passed,
\* and isRateLimited has just answered true for it.
C10_Witness ==
    /\ res.op = "isRateLimited"
    /\ res.out = {TRUE}
    /\ ticks > 0
    /\ now > TrackOf(tracked, RateKey(res.args[1], res.args[2])).last
    /\ TrackOf(tracked, RateKey(res.args[1], res.args[2])).count
            > MaxAttempts

(***************************************************************************)
(* Claims about the second factor, checked under SpecEnroll and SpecAuth.  *)
(***************************************************************************)
\* C14: UserService.verifyTwoFactor with the code of the stored secret for
\* the current time step succeeds, sets twoFactorEnabled, keeps the secret,
\* stores ten newly generated recovery codes in place of whatever was
\* stored, returns those same ten codes, and touches no other user.
C14_VerifyEnablesWithTenCodes ==
    [][res'.op = "service.verifyTwoFactor" =>
        LET u == res'.input[1]
            code == res'.input[2]
        IN TotpValidate(users[u].twoFactorSecret, code) =>
            /\ res'.ok
            /\ users'[u].twoFactorEnabled
            /\ users'[u].twoFactorSecret = users[u].twoFactorSecret
            /\ Len(users'[u].recoveryCodes) = 10
            /\ users'[u].recoveryCodes = res'.ret
            /\ \E seed \in EnrollSeeds :
                    res'.ret = [i \in 1..10 |-> GenerateRecoveryCode(seed, i)]
            /\ \A w \in UserIds \ {u} : users'[w] = users[w]]_vars

\* verifyTwoFactor has succeeded after the clock moved, and the ten codes
\* it returned are the ones stored.
C14_Witness ==
    /\ res.op = "service.verifyTwoFactor"
    /\ res.ok
    /\ ticks > 0
    /\ users[res.input[1]].twoFactorEnabled
    /\ Len(res.ret) = 10
    /\ users[res.input[1]].recoveryCodes = res.ret

\* C15: verifyTwoFactor fails and writes nothing when no secret is stored
\* or the code is not valid: the user records are as before, and at the
\* router no token is signed.
C15_FailedVerifyChangesNothing ==
    [][/\ res'.op = "service.verifyTwoFactor" =>
            LET u == res'.input[1]
                code == res'.input[2]
            IN (users[u].twoFactorSecret = ""
                    \/ ~TotpValidate(users[u].twoFactorSecret, code))
                => (~res'.ok /\ users' = users /\ issued' = issued)
       /\ res'.op = "verifyTwoFactor" =>
            LET t == res'.args[1]
                code == res'.input[1]
            IN (VerifyTempToken(t).ok
                    /\ ~TotpValidate(users[t.userId].twoFactorSecret, code))
                => /\ ~res'.ok
                   /\ users' = users
                   /\ issued' = issued
                   /\ res'.out = {}]_vars

\* A wrong code was given for a user whose secret is stored and not yet
\* verified, and verifyTwoFactor has refused it.
C15_Witness ==
    /\ res.op = "service.verifyTwoFactor"
    /\ res.err = "Invalid verification code"
    /\ users[res.input[1]].twoFactorSecret # ""
    /\ ~users[res.input[1]].twoFactorEnabled

\* C16: twoFactorEnabled becomes true only by a verifyTwoFactor that
\* succeeds; a successful enableTwoFactor stores the new secret with
\* twoFactorEnabled false, a successful disableTwoFactor leaves it false;
\* enableTwoFactor for a user with twoFactorEnabled fails and writes
\* nothing; and whenever twoFactorEnabled is true a secret is stored.
C16_EnrollmentInvariant ==
    [][/\ \A u \in UserIds :
            /\ users'[u].twoFactorEnabled => users'[u].twoFactorSecret # ""
            /\ (users'[u].twoFactorEnabled /\ ~users[u].twoFactorEnabled)
                => /\ res'.op = "service.verifyTwoFactor"
                   /\ res'.ok
                   /\ res'.input[1] = u
       /\ res'.op = "service.enableTwoFactor" =>
            LET u == res'.input[1]
                secret == res'.input[2]
            IN IF users[u].twoFactorEnabled
               THEN ~res'.ok /\ users' = users
               ELSE /\ res'.ok
                    /\ users'[u].twoFactorSecret = secret
                    /\ ~users'[u].twoFactorEnabled
       /\ (res'.op = "service.disableTwoFactor" /\ res'.ok)
            => ~users'[res'.input[1]].twoFactorEnabled]_vars

\* enableTwoFactor was called for a user whose second factor is enabled, and
\* has failed.
C16_Witness ==
    /\ res.op = "service.enableTwoFactor"
    /\ res.err = "Two factor is already enabled"
    /\ users[res.input[1]].twoFactorEnabled
    /\ users[res.input[1]].twoFactorSecret # res.input[2]

\* C17: disableTwoFactor succeeds exactly when the second factor is
\* enabled, the password is right and the code is the TOTP code of the
\* stored secret for the current time step; a stored recovery code given as
\* code is refused; on success the secret and the recovery codes are gone
\* and twoFactorEnabled is false; on failure the user records are as before.
C17_DisableNeedsPasswordAndCode ==
    [][res'.op = "service.disableTwoFactor" =>
        LET u == res'.input[1]
            code == res'.input[2]
            password == res'.input[3]
        IN /\ res'.ok <=>
                /\ users[u].twoFactorEnabled
                /\ VerifyPassword(users[u].passwordHash, password)
                /\ code = TotpCode(users[u].twoFactorSecret, now)
           /\ Includes(users[u].recoveryCodes, code) => ~res'.ok
           /\ res'.ok =>
                /\ users'[u].twoFactorSecret = ""
                /\ ~users'[u].twoFactorEnabled
                /\ users'[u].recoveryCodes = <<>>
           /\ ~res'.ok => users' = users]_vars

\* disableTwoFactor has succeeded with the right password, and the secret,
\* the flag and the recovery codes of the user are cleared.
C17_Witness ==
    /\ res.op = "service.disableTwoFactor"
    /\ res.ok
    /\ res.input[3] = GoodPassword
    /\ users[res.input[1]].twoFactorSecret = ""
    /\ users[res.input[1]].recoveryCodes = <<>>
    /\ ~users[res.input[1]].twoFactorEnabled

\* C18: useRecoveryCode with a code that is stored returns true and leaves
\* exactly one entry fewer in the stored collection, and the code is not
\* accepted a second time.
C18_OneCodeOneEntry ==
    [][res'.op = "service.useRecoveryCode" =>
        LET u == res'.input[1]
            code == res'.input[2]
        IN (code # EmptyCode /\ Includes(users[u].recoveryCodes, Trim(code)))
            => /\ res'.ok
               /\ res'.ret = TRUE
               /\ Len(users'[u].recoveryCodes)
                    = Len(users[u].recoveryCodes) - 1
               /\ ~Includes(users'[u].recoveryCodes, Trim(code))]_vars

\* C19: useRecoveryCode with codes stored and a code that, trimmed, is none
\* of them returns false without throwing and writes nothing; with no code
\* stored it throws "Recovery authentication not available" and writes
\* nothing.
C19_UnknownCodeIsFalse ==
    [][res'.op = "service.useRecoveryCode" =>
        LET u == res'.input[1]
            code == res'.input[2]
        IN /\ (/\ users[u].recoveryCodes # <<>>
               /\ code # EmptyCode
               /\ ~Includes(users[u].recoveryCodes, Trim(code)))
                => (res'.ok /\ res'.ret = FALSE /\ users' = users)
           /\ users[u].recoveryCodes = <<>>
                => /\ ~res'.ok
                   /\ res'.err = "Recovery authentication not available"
                   /\ users' = users]_vars

\* With recovery codes stored, a code that is none of them was sent, and
\* useRecoveryCode has returned false.
C19_Witness ==
    /\ res.op = "service.useRecoveryCode"
    /\ res.ok
    /\ res.ret = FALSE
    /\ users[res.input[1]].recoveryCodes # <<>>
    /\ res.input[2] \in {BadRecoveryCode, Padded(EmptyCode)}

(***************************************************************************)
(* Claims about concurrent calls, checked under SpecRace.                  *)
(***************************************************************************)
\* C20: of the useRecoveryCode calls made for one user with the same stored
\* code, however their steps interleave, at most one returns true.
C20_CodeUsedOnce ==
    \A p, q \in DOMAIN inflight :
        (/\ p # q
         /\ inflight[p].pc = "returned"
         /\ inflight[q].pc = "returned"
         /\ Trim(inflight[p].code) = Trim(inflight[q].code))
        => ~(inflight[p].value /\ inflight[q].value)

\* C21: the stored recovery codes of a user only shrink: after every step
\* that is not a successful verifyTwoFactor, each code stored was stored
\* before the step, also when two useRecoveryCode calls with two different
\* codes run at once.
C21_RecoveryCodesOnlyShrink ==
    [][~(res'.op = "service.verifyTwoFactor" /\ res'.ok) =>
        \A u \in UserIds :
            \A i \in DOMAIN users'[u].recoveryCodes :
                Includes(users[u].recoveryCodes,
                         users'[u].recoveryCodes[i])]_vars

(***************************************************************************)
(* Sessions at the user router: logout and account deletion.               *)
(***************************************************************************)
\* The refreshToken cookie of a request: a refresh token the caller was
\* given, junk, or no cookie.
RefreshCookies == {t \in issued : t.type = "refresh"} \cup {Garbage, NoToken}

\* The cookies a handler hands to blacklistTokens: those that are set.
CookieTokens(access, refresh) ==
    (IF access # NoToken THEN <<access>> ELSE <<>>)
        \o (IF refresh # NoToken THEN <<refresh>> ELSE <<>>)

\* A logout that revokes the access token only.
LogoutAccessOnly(access, refresh) ==
    IF ~ProtectedRoute(access)
    THEN [ok |-> FALSE, err |-> "UNAUTHORIZED", calls |-> {}]
    ELSE [ok |-> TRUE, err |-> "", calls |-> AllCalls(<<access>>)]

\* userRouter.logout with the two cookies: behind protectedRoute, it hands
\* the cookies that are set to blacklistTokens, clears them and answers
\* "Logout successful".
Logout(access, refresh) ==
    IF ~ProtectedRoute(access)
    THEN [ok |-> FALSE, err |-> "UNAUTHORIZED", calls |-> {}]
    ELSE IF CookieTokens(access, refresh) = <<>>
    THEN [ok |-> FALSE, err |-> "UNAUTHORIZED: No tokens to log out",
          calls |-> {}]
    ELSE [ok |-> TRUE, err |-> "",
          calls |-> AllCalls(CookieTokens(access, refresh))]

DoLogout ==
    \E access \in Presentable, refresh \in RefreshCookies :
        LET r == Logout(access, refresh)
        IN /\ blacklist' = ApplySetex(blacklist, r.calls)
           /\ res' = Res("logout", r.ok, r.err, CreateTRPCContext(access).userId,
                         <<>>, <<access, refresh>>, {}, r.calls)
           /\ UNCHANGED <<handles, todos, notes, now, ticks, cacheUp, inflight, users, issued, pairs,
                          rateLimits, tracked>>

\* userRepo.deleteUserById(userId): the record is gone and findById no
\* longer finds it.
RepoDeleteUserById(us, u) == [us EXCEPT ![u].exists = FALSE]

\* UserService.deleteUser(userId, passwordOnce).
ServiceDeleteUser(u, passwordOnce) ==
    IF ~users[u].exists THEN [err |-> "User not found", users |-> users]
    ELSE IF ~VerifyPassword(users[u].passwordHash, passwordOnce)
    THEN [err |-> "Invalid password", users |-> users]
    ELSE [err |-> "", users |-> RepoDeleteUserById(users, u)]

\* A delete that leaves the cookies' tokens as they are.
DeleteWithoutRevoking(ip, access, refresh, passwordOne, passwordTwo) ==
    LET u == CreateTRPCContext(access).userId
        lim == IsRateLimited(rateLimits, ip, u)
        key == RateKey(ip, u)
        d == ServiceDeleteUser(u, passwordOne)
    IN IF ~ProtectedRoute(access)
       THEN [ok |-> FALSE, err |-> "UNAUTHORIZED", users |-> users,
             rl |-> rateLimits, tr |-> tracked, calls |-> {}]
       ELSE IF lim.limited
       THEN [ok |-> FALSE,
             err |-> "TOO_MANY_REQUESTS: Too many attempts. Please try again later.",
             users |-> users, rl |-> lim.rl, tr |-> tracked, calls |-> {}]
       ELSE IF passwordOne # passwordTwo
       THEN [ok |-> FALSE, err |-> "BAD_REQUEST: Passwords do not match",
             users |-> users, rl |-> TrackAttempt(lim.rl, ip, u),
             tr |-> TrackedAfterTrack(tracked, key), calls |-> {}]
       ELSE IF d.err # ""
       THEN [ok |-> FALSE, err |-> "INTERNAL_SERVER_ERROR: Error deleting user",
             users |-> users, rl |-> TrackAttempt(lim.rl, ip, u),
             tr |-> TrackedAfterTrack(tracked, key), calls |-> {}]
       ELSE [ok |-> TRUE, err |-> "", users |-> d.users,
             rl |-> ResetAttempts(lim.rl, ip, u),
             tr |-> TrackedAfterReset(tracked, key), calls |-> {}]

\* userRouter.delete with the two cookies and the two passwords: behind
\* protectedRoute; the rate limiter is asked first; passwords that differ
\* and a deleteUser that throws are tracked as attempts; after deleteUser
\* the cookies that are set go to blacklistTokens and the attempts are reset.
Delete(ip, access, refresh, passwordOne, passwordTwo) ==
    LET u == CreateTRPCContext(access).userId
        lim == IsRateLimited(rateLimits, ip, u)
        key == RateKey(ip, u)
        d == ServiceDeleteUser(u, passwordOne)
    IN IF ~ProtectedRoute(access)
       THEN [ok |-> FALSE, err |-> "UNAUTHORIZED", users |-> users,
             rl |-> rateLimits, tr |-> tracked, calls |-> {}]
       ELSE IF lim.limited
       THEN [ok |-> FALSE,
             err |-> "TOO_MANY_REQUESTS: Too many attempts. Please try again later.",
             users |-> users, rl |-> lim.rl, tr |-> tracked, calls |-> {}]
       ELSE IF passwordOne # passwordTwo
       THEN [ok |-> FALSE, err |-> "BAD_REQUEST: Passwords do not match",
             users |-> users, rl |-> TrackAttempt(lim.rl, ip, u),
             tr |-> TrackedAfterTrack(tracked, key), calls |-> {}]
       ELSE IF d.err # ""
       THEN [ok |-> FALSE, err |-> "INTERNAL_SERVER_ERROR: Error deleting user",
             users |-> users, rl |-> TrackAttempt(lim.rl, ip, u),
             tr |-> TrackedAfterTrack(tracked, key), calls |-> {}]
       ELSE [ok |-> TRUE, err |-> "", users |-> d.users,
             rl |-> ResetAttempts(lim.rl, ip, u),
             tr |-> TrackedAfterReset(tracked, key),
             calls |-> AllCalls(CookieTokens(access, refresh))]

DeletePasswords == {GoodPassword, BadPassword}

DoDelete ==
    \E ip \in Origins, access \in Presentable, refresh \in RefreshCookies,
       passwordOne \in DeletePasswords, passwordTwo \in DeletePasswords :
        LET r == Delete(ip, access, refresh, passwordOne, passwordTwo)
        IN /\ users' = r.users
           /\ rateLimits' = r.rl
           /\ tracked' = r.tr
           /\ blacklist' = ApplySetex(blacklist, r.calls)
           /\ res' = Res("delete", r.ok, r.err,
                         CreateTRPCContext(access).userId,
                         <<ip, passwordOne, passwordTwo>>, <<access, refresh>>,
                         {}, r.calls)
           /\ UNCHANGED <<handles, todos, notes, now, ticks, cacheUp, inflight, issued, pairs>>

\* The login of a registered user, as far as its token pair goes; one
\* session is followed.
SessionStarts ==
    /\ pairs = {}
    /\ \A u \in TokenUsers : users[u].exists
    /\ GenerateTokenPair

NextSession ==
    \/ Tick
    \/ SessionStarts
    \/ ProtectedRequest
    \/ DoLogout
    \/ DoDelete

SpecSession == Init /\ [][NextSession]_vars

(***************************************************************************)
(* Claims about sessions.                                                  *)
(***************************************************************************)
\* C22: once logout has answered, with the cache reachable, verifyToken
\* fails on each of the two tokens the request carried as cookies and
\* refreshAccessToken fails on the refresh token.
C22_LogoutRevokesBoth ==
    (res.op = "logout" /\ res.ok /\ cacheUp) =>
        /\ \A i \in DOMAIN res.args :
               res.args[i] # NoToken => ~VerifyToken(res.args[i]).ok
        /\ res.args[2] # NoToken => ~RefreshAccessToken(res.args[2]).ok

\* A logout with both cookies of a live session has taken place.
C22_Witness ==
    /\ res.op = "logout" /\ res.ok
    /\ \E p \in pairs : res.args = <<p.accessToken, p.refreshToken>>
    /\ \A i \in DOMAIN res.args :
           /\ JwtVerify(res.args[i])
           /\ res.args[i] \in DOMAIN blacklist

(***************************************************************************)
(* Changes of password, username and email (UserService), each with a      *)
(* waiting time of two weeks kept on the user record.                      *)
(***************************************************************************)
\* twoWeeks = 14 * 24 * 60 * 60 * 1000 ms, in seconds.
TwoWeeks == 1209600

\* The rest of the waiting time: Math.max(0, twoWeeks - (Date.now() - last)).
TimeRemaining(last) ==
    IF last = NoDate THEN 0
    ELSE IF TwoWeeks - (now - last[1]) > 0 THEN TwoWeeks - (now - last[1])
    ELSE 0

\* validatePassword and validateEmail (@/utils/user).
NewPassword == "New-horse-34??"
ValidatePassword(p) == p \in {GoodPassword, NewPassword}
ValidateEmail(e) == e # "no-at-sign"

\* String.prototype.trim on the names and addresses a caller sends.
TrimText(s) == IF s = " carol " THEN "carol" ELSE s

\* userRepo.updateUserPassword, updateUsernameById, updateUserEmail: the
\* field is written and the time of its change is recorded with it.
RepoUpdateUserPassword(us, u, hash) ==
    [us EXCEPT ![u].passwordHash = hash, ![u].lastPasswordChange = <<now>>]
RepoUpdateUsernameById(us, u, name) ==
    [us EXCEPT ![u].username = name, ![u].lastUsernameChange = <<now>>]
RepoUpdateUserEmail(us, u, email) ==
    [us EXCEPT ![u].email = email, ![u].lastEmailChange = <<now>>]

\* A changePassword that never looks at lastPasswordChange.
ChangePasswordAnyTime(u, newPassword, oldPassword) ==
    IF ~users[u].exists THEN [err |-> "User not found", users |-> users]
    ELSE IF ~VerifyPassword(users[u].passwordHash, oldPassword)
    THEN [err |-> "Old password is incorrect", users |-> users]
    ELSE IF ~ValidatePassword(newPassword)
    THEN [err |-> "New password must have at least 2 special characters",
          users |-> users]
    ELSE [err |-> "",
          users |-> RepoUpdateUserPassword(users, u, HashPassword(newPassword))]

\* UserService.changePassword(userId, newPassword, oldPassword).
ChangePassword(u, newPassword, oldPassword) ==
    IF ~users[u].exists THEN [err |-> "User not found", users |-> users]
    ELSE IF TimeRemaining(users[u].lastPasswordChange) > 0
    THEN [err |-> "ChangeRateLimit", users |-> users]
    ELSE IF ~VerifyPassword(users[u].passwordHash, oldPassword)
    THEN [err |-> "Old password is incorrect", users |-> users]
    ELSE IF ~ValidatePassword(newPassword)
    THEN [err |-> "New password must have at least 2 special characters",
          users |-> users]
    ELSE [err |-> "",
          users |-> RepoUpdateUserPassword(users, u, HashPassword(newPassword))]

\* UserService.updateUsername(userId, oldName, newName).
UpdateUsername(u, oldName, newName) ==
    IF ~users[u].exists THEN [err |-> "User not found", users |-> users]
    ELSE IF newName = "" \/ TrimText(newName) = ""
    THEN [err |-> "Must provide new username", users |-> users]
    ELSE IF TrimText(newName) = TrimText(oldName)
    THEN [err |-> "You are already using this username", users |-> users]
    ELSE IF TimeRemaining(users[u].lastUsernameChange) > 0
    THEN [err |-> "Username can only be changed every 2 weeks",
          users |-> users]
    ELSE IF UserOfName(newName) # {}
    THEN [err |-> "This username is already in use", users |-> users]
    ELSE [err |-> "",
          users |-> RepoUpdateUsernameById(users, u, TrimText(newName))]

\* UserService.updateEmail(userId, newEmail).
UpdateEmail(u, newEmail) ==
    IF ~users[u].exists THEN [err |-> "User not found", users |-> users]
    ELSE IF TimeRemaining(users[u].lastEmailChange) > 0
    THEN [err |-> "ChangeRateLimit", users |-> users]
    ELSE IF TrimText(users[u].email) = TrimText(newEmail)
    THEN [err |-> "You are already using this email", users |-> users]
    ELSE IF ~ValidateEmail(newEmail)
    THEN [err |-> "Must be a valid email addresss", users |-> users]
    ELSE [err |-> "", users |-> RepoUpdateUserEmail(users, u, newEmail)]

\* What the callers of the three operations send.
ProfileUsers == {"u1"}
ProfilePasswords == {GoodPassword, NewPassword, BadPassword}
ProfileNames == {"", "alice", "bob", "carol", " carol "}
ProfileEmails == {"alice@example.org", "new@example.org", "no-at-sign"}
ProfileSteps == {1, TwoWeeks - 1, TwoWeeks}

DoChangePassword ==
    \E u \in ProfileUsers, newPassword \in ProfilePasswords,
       oldPassword \in ProfilePasswords :
        LET r == ChangePassword(u, newPassword, oldPassword)
        IN /\ users' = r.users
           /\ res' = Res("changePassword", r.err = "", r.err, u,
                         <<newPassword, oldPassword>>, <<>>, {}, {})
           /\ UNCHANGED <<handles, todos, notes, now, ticks, cacheUp, inflight, issued, pairs, blacklist,
                          rateLimits, tracked>>

DoUpdateUsername ==
    \E u \in ProfileUsers, newName \in ProfileNames :
        LET r == UpdateUsername(u, users[u].username, newName)
        IN /\ users' = r.users
           /\ res' = Res("updateUsername", r.err = "", r.err, u,
                         <<users[u].username, newName>>, <<>>, {}, {})
           /\ UNCHANGED <<handles, todos, notes, now, ticks, cacheUp, inflight, issued, pairs, blacklist,
                          rateLimits, tracked>>

DoUpdateEmail ==
    \E u \in ProfileUsers, newEmail \in ProfileEmails :
        LET r == UpdateEmail(u, newEmail)
        IN /\ users' = r.users
           /\ res' = Res("updateEmail", r.err = "", r.err, u, <<newEmail>>,
                         <<>>, {}, {})
           /\ UNCHANGED <<handles, todos, notes, now, ticks, cacheUp, inflight, issued, pairs, blacklist,
                          rateLimits, tracked>>

\* The rate limiter counts a failed attempt of the caller, up to the limit.
ProfileTrackAttempt ==
    \E origin \in Origins, u \in ProfileUsers :
        /\ ~IsRateLimited(rateLimits, origin, u).limited
        /\ rateLimits' = TrackAttempt(rateLimits, origin, u)
        /\ res' = Res("trackAttempt", TRUE, "", u, <<>>, <<origin, u>>, {}, {})
        /\ UNCHANGED <<handles, todos, notes, now, ticks, cacheUp, inflight, users, issued, pairs,
                       blacklist, tracked>>

TickProfile ==
    \E d \in ProfileSteps :
        /\ ticks < MaxTicks
        /\ now' = now + d
        /\ ticks' = ticks + 1
        /\ res' = Res("tick", TRUE, "", "", <<>>, <<>>, {}, {})
        /\ UNCHANGED <<handles, todos, notes, cacheUp, inflight, users, issued, pairs, blacklist,
                       rateLimits, tracked>>

NextProfile ==
    \/ TickProfile
    \/ DoChangePassword
    \/ DoUpdateUsername
    \/ DoUpdateEmail
    \/ ProfileTrackAttempt

SpecProfile == Init /\ [][NextProfile]_vars

(***************************************************************************)
(* Claims about the changes of password, username and email.               *)
(***************************************************************************)
\* C23: each of changePassword, updateEmail and updateUsername fails and
\* leaves the user records as they were when fewer than fourteen days have
\* passed since the last change of its own field, whatever the rate limiter
\* holds; when it succeeds it records the time of the change for its own
\* field and leaves the times of the other two fields alone.
C23_FieldCooldown ==
    [][\A u \in ProfileUsers :
        LET early(last) == last # NoDate /\ now - last[1] < TwoWeeks
            before == users[u]
            after == users'[u]
        IN /\ (res'.op = "changePassword" /\ res'.who = u) =>
                /\ early(before.lastPasswordChange) =>
                       ~res'.ok /\ users' = users
                /\ res'.ok =>
                       /\ after.lastPasswordChange = <<now>>
                       /\ after.lastEmailChange = before.lastEmailChange
                       /\ after.lastUsernameChange = before.lastUsernameChange
           /\ (res'.op = "updateEmail" /\ res'.who = u) =>
                /\ early(before.lastEmailChange) => ~res'.ok /\ users' = users
                /\ res'.ok =>
                       /\ after.lastEmailChange = <<now>>
                       /\ after.lastPasswordChange = before.lastPasswordChange
                       /\ after.lastUsernameChange = before.lastUsernameChange
           /\ (res'.op = "updateUsername" /\ res'.who = u) =>
                /\ early(before.lastUsernameChange) =>
                       ~res'.ok /\ users' = users
                /\ res'.ok =>
                       /\ after.lastUsernameChange = <<now>>
                       /\ after.lastPasswordChange = before.lastPasswordChange
                       /\ after.lastEmailChange = before.lastEmailChange]_vars

\* One second before the two weeks are over, a password change with the
\* right old password is refused, while the email, never changed before,
\* was changed meanwhile and the rate limiter holds nothing.
C23_Witness ==
    /\ res.op = "changePassword" /\ ~res.ok /\ res.err = "ChangeRateLimit"
    /\ VerifyPassword(users[res.who].passwordHash, res.input[2])
    /\ ValidatePassword(res.input[1])
    /\ users[res.who].lastPasswordChange = <<0>>
    /\ now = TwoWeeks - 1
    /\ users[res.who].lastEmailChange = <<now>>
    /\ rateLimits = <<>>

(***************************************************************************)
(* Claims about temporary tokens.                                          *)
(***************************************************************************)
\* C24: verifyTempToken rejects a token that the blacklist holds, and a
\* token whose type marker is not "temp".
C24_TempTokenChecksBlacklist ==
    res.op = "verifyTempToken" =>
        /\ res.args[1].type # "temp" => ~res.ok
        /\ (cacheUp /\ BlacklistGet(res.args[1])) => ~res.ok

\* C25: a temporary token is never renewed.  refreshAccessToken rejects it,
\* no operation given a temporary token returns a token that expires later
\* than it, and once its five minutes are over verifyTempToken and with it
\* tempAuthRoute reject it.
C25_TempTokenNotRenewed ==
    (Len(res.args) >= 1 /\ res.args[1].type = "temp") =>
        /\ res.op = "refreshAccessToken" => ~res.ok /\ res.out = {}
        /\ \A o \in res.out : o.exp <= res.args[1].exp
        /\ (res.op = "verifyTempToken" /\ now >= res.args[1].exp) => ~res.ok
        /\ now >= res.args[1].exp => ~TempAuthRoute(res.args[1])

\* refreshAccessToken was called with a temporary token that is signed,
\* unexpired and not revoked.
C25_Witness ==
    /\ res.op = "refreshAccessToken" /\ ~res.ok
    /\ res.args[1].type = "temp"
    /\ VerifyTempToken(res.args[1]).ok
    /\ ~BlacklistGet(res.args[1])

(***************************************************************************)
(* Claims about revocation in batches and about repeated revocation.       *)
(***************************************************************************)
\* C26: blacklistTokens never raises over a malformed token in its list, and
\* every well-formed token of the list that has lifetime left is blacklisted
\* until its expiry, wherever the malformed token stands.
C26_BatchIsBestEffort ==
    (res.op = "blacklistTokens" /\ cacheUp) =>
        /\ res.ok
        /\ \A i \in DOMAIN res.args :
               LET t == res.args[i]
               IN (t \notin Malformed /\ t.exp - now > 0) =>
                      /\ BlacklistGet(t)
                      /\ blacklist[t] = t.exp

\* A list that begins with a token without payload segment and goes on with
\* a live token has been revoked.
C26_Witness ==
    /\ res.op = "blacklistTokens" /\ res.ok
    /\ Len(res.args) = 2
    /\ res.args[1] = Garbage
    /\ JwtVerify(res.args[2])
    /\ BlacklistGet(res.args[2])

\* C28: revoking a token that is already revoked succeeds, leaves it revoked,
\* and leaves its blacklist entry lasting at least to the token's expiry.
C28_RevocationIdempotent ==
    (res.op = "blacklistTokens" /\ cacheUp) =>
        /\ res.ok
        /\ \A t \in res.revoked :
               /\ BlacklistGet(t)
               /\ blacklist[t] >= t.exp
               /\ ~VerifyToken(t).ok

\* A live refresh token that was revoked at an earlier time has been revoked
\* once more.
C28_Witness ==
    /\ res.op = "blacklistTokens" /\ res.ok
    /\ now > 0
    /\ \E t \in res.revoked :
           /\ t.type = "refresh" /\ JwtVerify(t)
           /\ \E c \in res.writes : c.token = t /\ c.ttl < RefreshTokenExpiry

(***************************************************************************)
(* The token service with a cache that can become unreachable.             *)
(***************************************************************************)
\* The connection to the cache is lost: getClient or the command throws.
CacheFails ==
    /\ cacheUp
    /\ cacheUp' = FALSE
    /\ res' = Res("cacheFails", TRUE, "", "", <<>>, <<>>, {}, {})
    /\ UNCHANGED <<handles, todos, notes, now, ticks, inflight, users, issued, pairs, blacklist,
                   rateLimits, tracked>>

\* The connection is back; the entries written before are still there.
CacheRecovers ==
    /\ ~cacheUp
    /\ cacheUp' = TRUE
    /\ res' = Res("cacheRecovers", TRUE, "", "", <<>>, <<>>, {}, {})
    /\ UNCHANGED <<handles, todos, notes, now, ticks, inflight, users, issued, pairs, blacklist,
                   rateLimits, tracked>>

NextFault ==
    \/ Tick
    \/ GenerateTokenPair
    \/ DoVerifyToken
    \/ DoBlacklistTokens
    \/ ProtectedRequest
    \/ CacheFails
    \/ CacheRecovers

SpecFault == Init /\ [][NextFault]_vars

\* C27: blacklistTokens does not report success while a token of its list
\* that has lifetime left is without its blacklist entry: when it has
\* answered without error, every setEx call it made has been stored.
C27_CacheFailureNotSwallowed ==
    (res.op = "blacklistTokens" /\ res.ok) =>
        \A c \in res.writes :
            /\ c.token \in DOMAIN blacklist
            /\ blacklist[c.token] = now + c.ttl

(***************************************************************************)
(* verifyToken in its two awaited steps, interleaved with blacklistTokens.  *)
(***************************************************************************)
\* A verifyToken that goes on to jwtVerify whatever the lookup answered.
VerifyAfterLookupAnyAnswer(b, t) ==
    IF ~JwtVerify(t)
    THEN [ok |-> FALSE, err |-> "Invalid token", payload |-> NoToken]
    ELSE [ok |-> TRUE, err |-> "", payload |-> t]

\* verifyToken from the answer b of isTokenBlacklisted on: the throw on a
\* blacklisted token, then jwtVerify at the time it runs.
VerifyAfterLookup(b, t) ==
    IF ~b.ok \/ b.value \/ ~JwtVerify(t)
    THEN [ok |-> FALSE, err |-> "Invalid token", payload |-> NoToken]
    ELSE [ok |-> TRUE, err |-> "", payload |-> t]

\* verifyToken up to the answer of isTokenBlacklisted.  With the answer the
\* call keeps a note of whether an entry for the token had been written by
\* then.
VerifyLookup ==
    \E p \in Callers, t \in issued :
        /\ p \in DOMAIN inflight => inflight[p].pc = "returned"
        /\ inflight' = [q \in DOMAIN inflight \cup {p} |->
                           IF q = p
                           THEN [pc |-> "looked", token |-> t,
                                 answer |-> IsTokenBlacklisted(t),
                                 written |-> t \in DOMAIN blacklist,
                                 value |-> FALSE]
                           ELSE inflight[q]]
        /\ res' = Res("verifyToken.isTokenBlacklisted", TRUE, "", p, <<>>,
                      <<t>>, {}, {})
        /\ UNCHANGED <<handles, todos, notes, now, ticks, cacheUp, users, issued, pairs, blacklist,
                       rateLimits, tracked>>

\* The rest of verifyToken.
VerifyFinish ==
    \E p \in DOMAIN inflight :
        LET c == inflight[p]
            v == VerifyAfterLookup(c.answer, c.token)
        IN /\ c.pc = "looked"
           /\ inflight' = [inflight EXCEPT ![p].pc = "returned",
                                           ![p].value = v.ok]
           /\ res' = Res("verifyToken", v.ok, v.err, p, <<>>, <<c.token>>,
                         IF v.ok THEN {v.payload} ELSE {}, {})
           /\ UNCHANGED <<handles, todos, notes, now, ticks, cacheUp, users, issued, pairs, blacklist,
                          rateLimits, tracked>>

\* The one session whose tokens are verified and revoked.
RevokeSession ==
    /\ pairs = {}
    /\ GenerateTokenPair

NextRevoke ==
    \/ Tick
    \/ RevokeSession
    \/ DoBlacklistTokens
    \/ VerifyLookup
    \/ VerifyFinish

SpecRevoke == Init /\ [][NextRevoke]_vars

\* C29: a verifyToken call whose blacklist lookup came after the blacklist
\* entry of its token was written fails; a call that succeeds made its
\* lookup before the write.
C29_RevokeVerifyRace ==
    \A p \in DOMAIN inflight :
        (inflight[p].pc = "returned" /\ inflight[p].value) =>
            ~inflight[p].written

\* Both orders have happened for one live token: a call that looked before
\* the write has succeeded after it, and a call that looked after the write
\* has failed.
C29_Witness ==
    \E p \in DOMAIN inflight, q \in DOMAIN inflight :
        /\ inflight[p].pc = "returned" /\ inflight[q].pc = "returned"
        /\ inflight[p].token = inflight[q].token
        /\ JwtVerify(inflight[p].token)
        /\ inflight[p].token \in DOMAIN blacklist
        /\ inflight[p].value /\ ~inflight[p].written
        /\ ~inflight[q].value /\ inflight[q].written

C31_SuccessClearsCounter ==
    /\ [][res'.op = "login" =>
            LET ip == res'.input[1]
                name == res'.input[2]
                key == RateKey(ip, name)
                right == \E u \in UserOfName(name) :
                            VerifyPassword(users[u].passwordHash, res'.input[3])
                limited == IsRateLimited(rateLimits, ip, name).limited
            IN (right /\ ~limited) =>
                    /\ res'.ok
                    /\ key \notin DOMAIN rateLimits'
                    /\ ~IsRateLimited(rateLimits', ip, name).limited
                    /\ TrackOf(tracked', key).count = 0]_vars
    /\ [](\A ip \in Origins, cred \in LoginInputs :
            IsRateLimited(rateLimits, ip, cred[1]).limited =>
                TrackOf(tracked, RateKey(ip, cred[1])).count >= MaxAttempts)

\* A login with the right password has succeeded for a pair whose record
\* was one attempt short of the limit, and the record is gone.
C31_Witness ==
    /\ res.op = "login" /\ res.ok
    /\ res.attempts = MaxAttempts - 1
    /\ RateKey(res.input[1], res.input[2]) \notin DOMAIN rateLimits

(***************************************************************************)
(* The lazily initialized client handles: RedisManager.getClient,          *)
(* connectToDb and getUserService, called by concurrent requests.  Each    *)
(* call runs up to its first await that suspends, and from there to its    *)
(* return.                                                                 *)
(***************************************************************************)
Idle(p) == p \in DOMAIN inflight => inflight[p].pc \in {"returned", "failed"}

\* The call of p is at pc; `early` says that it was handed a client whose
\* connection was not established.
Position(p, pc, op, early) ==
    [q \in DOMAIN inflight \cup {p} |->
        IF q = p THEN [pc |-> pc, op |-> op, early |-> early] ELSE inflight[q]]

HandleRest == <<now, ticks, cacheUp, users, issued, pairs, blacklist,
                rateLimits, tracked, todos, notes>>

\* getClient -> ensureConnected: the client is created when the variable is
\* null; connect is invoked and awaited when isConnected is false.
GetClientEnter ==
    \E p \in Callers :
        /\ Idle(p)
        /\ IF ~handles.isConnected
           THEN /\ handles' = [handles EXCEPT !.redisClient = TRUE,
                                              !.redisConnects = @ + 1]
                /\ inflight' = Position(p, "redis.connect", "getClient", FALSE)
           ELSE /\ handles' = handles
                /\ inflight' = Position(p, "returned", "getClient",
                                        ~handles.redisOpen)
        /\ res' = Res("getClient", TRUE, "", p, <<>>, <<>>, {}, {})
        /\ UNCHANGED HandleRest

\* client.connect() has resolved: isConnected = true, and getClient returns.
GetClientConnected ==
    \E p \in DOMAIN inflight :
        /\ inflight[p].pc = "redis.connect"
        /\ handles' = [handles EXCEPT !.redisOpen = TRUE, !.isConnected = TRUE]
        /\ inflight' = Position(p, "returned", "getClient", FALSE)
        /\ res' = Res("getClient.connected", TRUE, "", p, <<>>, <<>>, {}, {})
        /\ UNCHANGED HandleRest

\* connectToDb, called as such or by getUserService when userService is
\* null: an existing client is returned at once; otherwise a MongoClient is
\* made, stored, and its connect awaited.  getUserService stores the service
\* it builds on the client it got.
DbEnter ==
    \E p \in Callers, op \in {"connectToDb", "getUserService"} :
        /\ Idle(p)
        /\ IF op = "getUserService" /\ handles.userService
           THEN /\ handles' = handles
                /\ inflight' = Position(p, "returned", op, ~handles.mongoOpen)
           ELSE IF handles.mongoClient
           THEN /\ handles' = [handles EXCEPT
                                 !.userService = @ \/ op = "getUserService"]
                /\ inflight' = Position(p, "returned", op, ~handles.mongoOpen)
           ELSE /\ handles' = [handles EXCEPT !.mongoClient = TRUE,
                                              !.mongoConnects = 1,
                                              !.mongoOpen = FALSE]
                /\ inflight' = Position(p, "mongo.connect", op, FALSE)
        /\ res' = Res(op, TRUE, "", p, <<>>, <<>>, {}, {})
        /\ UNCHANGED HandleRest

\* client.connect() of the MongoClient has resolved.
DbConnected ==
    \E p \in DOMAIN inflight :
        /\ inflight[p].pc = "mongo.connect"
        /\ handles' = [handles EXCEPT
                         !.mongoOpen = TRUE,
                         !.userService = @ \/ inflight[p].op = "getUserService"]
        /\ inflight' = Position(p, "returned", inflight[p].op, FALSE)
        /\ res' = Res("connectToDb.connected", TRUE, "", p, <<>>, <<>>, {}, {})
        /\ UNCHANGED HandleRest

\* client.connect() of the MongoClient has rejected: client = null and
\* "Failed to connect to the database" is thrown.
DbFails ==
    \E p \in DOMAIN inflight :
        /\ inflight[p].pc = "mongo.connect"
        /\ handles' = [handles EXCEPT !.mongoClient = FALSE,
                                      !.mongoConnects = 0]
        /\ inflight' = Position(p, "failed", inflight[p].op, FALSE)
        /\ res' = Res("connectToDb.failed", FALSE,
                      "Failed to connect to the database", p, <<>>, <<>>, {}, {})
        /\ UNCHANGED HandleRest

NextHandles ==
    \/ GetClientEnter
    \/ GetClientConnected
    \/ DbEnter
    \/ DbConnected
    \/ DbFails

SpecHandles == Init /\ [][NextHandles]_vars

\* C32: connect is invoked at most once on the Redis client and at most
\* once on a MongoClient, and no call returns a client whose connection is
\* not established.
C32_InitializedOnce ==
    /\ handles.redisConnects <= 1
    /\ handles.mongoConnects <= 1
    /\ \A p \in DOMAIN inflight :
           inflight[p].pc = "returned" => ~inflight[p].early

(***************************************************************************)
(* Enrollment of the second factor through the router alone: login,        *)
(* enableTwoFactor behind protectedRoute, verifyTwoFactor and              *)
(* useRecoveryCode behind tempAuthRoute.                                   *)
(***************************************************************************)
\* userRouter.enableTwoFactor with t as the accessToken cookie.
RouterEnableTwoFactor(t, secret) ==
    LET u == CreateTRPCContext(t).userId
        r == ServiceEnableTwoFactor(u, secret)
    IN IF ~ProtectedRoute(t)
       THEN [ok |-> FALSE, err |-> "UNAUTHORIZED", users |-> users]
       ELSE IF users[u].twoFactorEnabled
       THEN [ok |-> FALSE, err |-> "BAD_REQUEST: 2FA already enabled",
             users |-> users]
       ELSE IF r.err # ""
       THEN [ok |-> FALSE, err |-> "INTERNAL_SERVER_ERROR: " \o r.err,
             users |-> users]
       ELSE [ok |-> TRUE, err |-> "", users |-> r.users]

DoRouterEnableTwoFactor ==
    \E t \in Presentable, secret \in EnrollSecrets :
        LET r == RouterEnableTwoFactor(t, secret)
        IN /\ users' = r.users
           /\ res' = Res("enableTwoFactor", r.ok, r.err,
                         CreateTRPCContext(t).userId, <<secret>>, <<t>>, {}, {})
           /\ UNCHANGED <<handles, todos, notes, now, ticks, cacheUp, inflight,
                          issued, pairs, blacklist, rateLimits, tracked>>

NextRouterEnroll ==
    \/ TickAuth
    \/ DoLogin
    \/ DoRouterEnableTwoFactor
    \/ DoRouterVerifyTwoFactor
    \/ DoRouterUseRecoveryCode

\* Every request that can be made is made sooner or later.
SpecRouterEnroll ==
    Init /\ [][NextRouterEnroll]_vars /\ WF_vars(NextRouterEnroll)

\* C33: from users without a second factor, the router operations lead to a
\* user with twoFactorEnabled.
C33_EnrollmentCompletable == <>(\E u \in UserIds : users[u].twoFactorEnabled)

(***************************************************************************)
(* Claims about the use of a temp token and about the recovery codes a     *)
(* user holds.                                                             *)
(***************************************************************************)
\* C34: a temp token is exchanged for a token pair at most once: a
\* verifyTwoFactor or useRecoveryCode call that follows a successful one
\* carrying the same temp token issues no token pair.
C34_TempTokenUsedOnce ==
    [][(/\ res.op \in {"verifyTwoFactor", "useRecoveryCode"}
        /\ res.ok
        /\ res'.op \in {"verifyTwoFactor", "useRecoveryCode"}
        /\ res'.args = res.args)
            => (~res'.ok /\ res'.out = {})]_vars

\* C35: a successful verifyTwoFactor at the router, which stores new
\* recovery codes, delivers the stored codes in its response.
C35_StoredCodesDelivered ==
    [][(res'.op = "verifyTwoFactor" /\ res'.ok) =>
            res'.ret = users'[res'.who].recoveryCodes]_vars

(***************************************************************************)
(* Claims about verification while the cache cannot be asked.              *)
(***************************************************************************)
\* C36: while the blacklist cannot be consulted, verifyToken rejects every
\* token, createTRPCContext sets no user, and protectedRoute lets no
\* request through.
C36_FailsClosed ==
    ~cacheUp =>
        /\ \A t \in Presentable \cup Forged :
               /\ ~VerifyToken(t).ok
               /\ CreateTRPCContext(t) = NoToken
               /\ ~ProtectedRoute(t)
        /\ res.op \in {"verifyToken", "protectedRoute"} => ~res.ok

\* With the cache unreachable, a request carrying an access token that is
\* signed, unexpired and has no blacklist entry has been turned away.
C36_Witness ==
    /\ ~cacheUp
    /\ res.op = "protectedRoute" /\ ~res.ok
    /\ res.args[1].type = "none"
    /\ JwtVerify(res.args[1])
    /\ res.args[1] \notin DOMAIN blacklist

(***************************************************************************)
(* Todos: TodoRepo (src/unnamed/part_001) and TodoService                  *)
(* (src/unnamed/part_010).  A todo carries the fields the operations below *)
(* read or write; tags, priority, dates and the recurrence fields are      *)
(* left at undefined, for which validateProperties and isTodoValid pass.   *)
(***************************************************************************)
MaxTodos == 2

TodoIds == 1..MaxTodos

\* A name that is kept and a name that is blank after trim.
TodoNames == {"milk", ""}

\* The userId of a request; "" is a missing one.
TodoCallers == UserIds \cup {""}

\* findOne found nothing.
NoTodo ==
    [todoId |-> 0, userId |-> "", todoName |-> "", isComplete |-> FALSE,
     updatedAt |-> 0]

\* isTodoValid, without the date rules.
IsTodoValid(todo) == todo.userId # "" /\ todo.todoName # ""

\* TodoRepo.getTodoById: findOne({ todoId }).
RepoGetTodoById(store, todoId) ==
    IF \E t \in store : t.todoId = todoId
    THEN CHOOSE t \in store : t.todoId = todoId
    ELSE NoTodo

\* An updateOne whose filter is the todoId alone.
RepoUpdateTodoById(store, userId, todoId, updates) ==
    LET matched == {t \in store : t.todoId = todoId}
    IN  IF matched = {}
        THEN [ok |-> FALSE, err |-> "Todo not found", store |-> store]
        ELSE LET t == CHOOSE m \in matched : TRUE
             IN  [ok |-> TRUE, err |-> "",
                  store |-> (store \ {t}) \cup
                      {[t EXCEPT !.todoName = updates.todoName,
                                 !.isComplete = updates.isComplete,
                                 !.updatedAt = now]}]

\* TodoRepo.updateTodo: updateOne({ userId, todoId }, { $set: ... }),
\* "Todo not found" when matchedCount is 0.
RepoUpdateTodo(store, userId, todoId, updates) ==
    LET matched == {t \in store : t.userId = userId /\ t.todoId = todoId}
    IN  IF matched = {}
        THEN [ok |-> FALSE, err |-> "Todo not found", store |-> store]
        ELSE LET t == CHOOSE m \in matched : TRUE
             IN  [ok |-> TRUE, err |-> "",
                  store |-> (store \ {t}) \cup
                      {[t EXCEPT !.todoName = updates.todoName,
                                 !.isComplete = updates.isComplete,
                                 !.updatedAt = now]}]

\* TodoRepo.deleteTodo: deleteOne({ userId, todoId }), "Todo not found"
\* when deletedCount is 0.
RepoDeleteTodo(store, userId, todoId) ==
    LET matched == {t \in store : t.userId = userId /\ t.todoId = todoId}
    IN  IF matched = {}
        THEN [ok |-> FALSE, err |-> "Todo not found", store |-> store]
        ELSE [ok |-> TRUE, err |-> "",
              store |-> store \ {CHOOSE m \in matched : TRUE}]

\* { ...exists, ...updates }
Spread(exists, updates) ==
    [f \in DOMAIN exists |->
        IF f \in DOMAIN updates THEN updates[f] ELSE exists[f]]

\* TodoService.createTodo with the todoId that crypto.randomUUID gave.
CreateTodo(store, userId, todoId, todoName) ==
    LET todo == [todoId |-> todoId, userId |-> userId, todoName |-> todoName,
                 isComplete |-> FALSE, updatedAt |-> now]
    IN  IF userId = ""
        THEN [ok |-> FALSE, err |-> "User Id not found", store |-> store,
              ret |-> NoTodo]
        ELSE IF ~IsTodoValid(todo)
        THEN [ok |-> FALSE, err |-> "Invalid todo", store |-> store,
              ret |-> NoTodo]
        ELSE [ok |-> TRUE, err |-> "", store |-> store \cup {todo},
              ret |-> todo]

\* TodoService.updateTodo
UpdateTodo(store, userId, todoId, updates) ==
    LET exists == RepoGetTodoById(store, todoId)
        updatedTodo == [Spread(exists, updates) EXCEPT !.updatedAt = now]
        w == RepoUpdateTodo(store, userId, todoId, updatedTodo)
    IN  IF exists = NoTodo
        THEN [ok |-> FALSE, err |-> "Todo not found", store |-> store,
              ret |-> NoTodo]
        ELSE IF ~IsTodoValid(updatedTodo)
        THEN [ok |-> FALSE, err |-> "Invalid todo update", store |-> store,
              ret |-> NoTodo]
        ELSE IF ~w.ok
        THEN [ok |-> FALSE, err |-> w.err, store |-> store, ret |-> NoTodo]
        ELSE [ok |-> TRUE, err |-> "", store |-> w.store,
              ret |-> updatedTodo]

\* TodoService.deleteTodo
DeleteTodo(store, userId, todoId) ==
    LET exists == RepoGetTodoById(store, todoId)
        w == RepoDeleteTodo(store, userId, todoId)
    IN  IF exists = NoTodo
        THEN [ok |-> FALSE, err |-> "Todo does not exist", store |-> store,
              ret |-> NoTodo]
        ELSE IF ~w.ok
        THEN [ok |-> FALSE, err |-> w.err, store |-> store, ret |-> NoTodo]
        ELSE [ok |-> TRUE, err |-> "", store |-> w.store, ret |-> NoTodo]

\* TodoService.toggleComplete
ToggleComplete(store, userId, todoId) ==
    LET found == RepoGetTodoById(store, todoId)
        todo == [found EXCEPT !.isComplete = ~found.isComplete,
                              !.updatedAt = now]
        w == RepoUpdateTodo(store, userId, todoId, todo)
    IN  IF found = NoTodo
        THEN [ok |-> FALSE, err |-> "Could not find todo", store |-> store,
              ret |-> NoTodo]
        ELSE IF ~w.ok
        THEN [ok |-> FALSE, err |-> w.err, store |-> store, ret |-> NoTodo]
        ELSE [ok |-> TRUE, err |-> "", store |-> w.store, ret |-> todo]

\* TodoService.getTodo
GetTodo(store, userId, todoId) ==
    LET todo == RepoGetTodoById(store, todoId)
    IN  IF userId = "" \/ todoId = 0
        THEN [ok |-> FALSE, err |-> "User Id and Todo Id are required",
              store |-> store, ret |-> NoTodo]
        ELSE IF todo = NoTodo \/ todo.userId # userId
        THEN [ok |-> FALSE, err |-> "Todo does not exist", store |-> store,
              ret |-> NoTodo]
        ELSE [ok |-> TRUE, err |-> "", store |-> store, ret |-> todo]

\* The Partial<Todo> values a caller passes to updateTodo.
TodoUpdates ==
    {[todoName |-> n] : n \in TodoNames}
        \cup {[isComplete |-> b] : b \in BOOLEAN}
        \cup {[userId |-> u, todoName |-> "milk"] : u \in UserIds}

\* The todoIds a request names: those of the store, an unknown one, none.
TodoRequestIds == TodoIds \cup {0}

TodoEffect(op, userId, todoId, r) ==
    /\ todos' = r.store
    /\ res' = Res(op, r.ok, r.err, userId, <<>>, <<userId, todoId>>, {}, {})
                  @@ [ret |-> r.ret]
    /\ UNCHANGED <<now, ticks, cacheUp, users, issued, pairs, blacklist,
                   rateLimits, tracked, inflight, handles, notes>>

DoCreateTodo ==
    \E userId \in TodoCallers, todoName \in TodoNames,
       todoId \in TodoIds \ {t.todoId : t \in todos} :
        TodoEffect("createTodo", userId, todoId,
                   CreateTodo(todos, userId, todoId, todoName))

DoUpdateTodo ==
    \E userId \in TodoCallers, todoId \in TodoRequestIds,
       updates \in TodoUpdates :
        TodoEffect("updateTodo", userId, todoId,
                   UpdateTodo(todos, userId, todoId, updates))

DoDeleteTodo ==
    \E userId \in TodoCallers, todoId \in TodoRequestIds :
        TodoEffect("deleteTodo", userId, todoId,
                   DeleteTodo(todos, userId, todoId))

DoToggleComplete ==
    \E userId \in TodoCallers, todoId \in TodoRequestIds :
        TodoEffect("toggleComplete", userId, todoId,
                   ToggleComplete(todos, userId, todoId))

DoGetTodo ==
    \E userId \in TodoCallers, todoId \in TodoRequestIds :
        TodoEffect("getTodo", userId, todoId,
                   GetTodo(todos, userId, todoId))

NextTodo ==
    \/ DoCreateTodo
    \/ DoUpdateTodo
    \/ DoDeleteTodo
    \/ DoToggleComplete
    \/ DoGetTodo

SpecTodo == Init /\ [][NextTodo]_vars

\* C37: an updateTodo, toggleComplete or deleteTodo issued with one userId
\* leaves every todo of every other owner as it was, and fails without any
\* change of the store when the todo it names belongs to another owner;
\* a getTodo that succeeds returns a todo owned by the userId it was
\* issued with.
C37_TenantIsolation ==
    /\ [][res'.op \in {"updateTodo", "toggleComplete", "deleteTodo"} =>
            LET caller == res'.args[1]
                target == RepoGetTodoById(todos, res'.args[2])
            IN  /\ \A t \in todos : t.userId # caller => t \in todos'
                /\ \A t \in todos' : t.userId # caller => t \in todos
                /\ (target # NoTodo /\ target.userId # caller) =>
                        (~res'.ok /\ todos' = todos)]_vars
    /\ [](res.op = "getTodo" /\ res.ok =>
            /\ res.ret.userId = res.args[1]
            /\ res.ret.todoId = res.args[2])

\* One user has asked to change a todo that is in the store and belongs
\* to the other, with an update that is valid, and was refused.
C37_Witness ==
    /\ res.op = "updateTodo" /\ ~res.ok /\ res.err = "Todo not found"
    /\ res.args[1] \in UserIds
    /\ \E t \in todos : t.todoId = res.args[2] /\ t.userId # res.args[1]

(***************************************************************************)
(* Notes: NoteRepo (src/src/repositories/note.ts) and the pin operations   *)
(* of NoteService (src/src/services/note.ts).  pinnedPosition 0 is an      *)
(* unset pinnedPosition.                                                   *)
(***************************************************************************)
MaxNotes == 2

\* togglePin is not taken beyond this position.
MaxPosition == 3

NoteIds == 1..MaxNotes

\* A content that is kept and one that is blank after trim.
NoteContents == {"text", ""}

\* findOne found nothing.
NoNote ==
    [noteId |-> 0, userId |-> "", isPinned |-> FALSE, pinnedPosition |-> 0,
     updatedAt |-> 0]

\* isNoteValid: the content rule (the name rules have no effect).
IsNoteValid(content) == content # ""

\* NoteRepo.getNote: findOne({ noteId, userId }), throws on no match.
RepoGetNote(store, userId, noteId) ==
    IF \E n \in store : n.noteId = noteId /\ n.userId = userId
    THEN CHOOSE n \in store : n.noteId = noteId /\ n.userId = userId
    ELSE NoNote

\* find({ userId, isPinned: true })
PinnedOf(store, userId) == {n \in store : n.userId = userId /\ n.isPinned}

\* NoteRepo.findHighestPinnedPosition
FindHighestPinnedPosition(store, userId) ==
    LET pinned == PinnedOf(store, userId)
    IN  IF pinned = {} THEN 0
        ELSE (CHOOSE n \in pinned :
                \A m \in pinned : m.pinnedPosition <= n.pinnedPosition
             ).pinnedPosition

\* NoteRepo.getPinnedNotes, as far as NoteService.updatePinPosition reads
\* it: the number of notes returned.
PinnedNotesCount(store, userId) == Cardinality(PinnedOf(store, userId))

\* updateMany({ userId, isPinned: true,
\*              pinnedPosition: { $gt: gt, $lte: lte } }, { $inc: by })
UpdateManyInc(store, userId, gt, lte, by) ==
    {IF /\ n.userId = userId /\ n.isPinned
        /\ n.pinnedPosition > gt /\ n.pinnedPosition <= lte
     THEN [n EXCEPT !.pinnedPosition = @ + by]
     ELSE n : n \in store}

\* NoteRepo.updateNotePinPosition
RepoUpdateNotePinPosition(store, userId, noteId, newPos) ==
    LET note == RepoGetNote(store, userId, noteId)
        currentPos == note.pinnedPosition
        shifted ==
            IF currentPos < newPos
            THEN UpdateManyInc(store, userId, currentPos, newPos, -1)
            ELSE IF currentPos > newPos
            THEN UpdateManyInc(store, userId, currentPos, newPos, 1)
            ELSE store
    IN  IF note = NoNote \/ ~note.isPinned
        THEN [ok |-> FALSE, err |-> "Note not found or not pinned",
              store |-> store]
        ELSE [ok |-> TRUE, err |-> "",
              store |->
                {IF n.userId = userId /\ n.noteId = noteId
                 THEN [n EXCEPT !.pinnedPosition = newPos, !.updatedAt = now]
                 ELSE n : n \in shifted}]

\* NoteService.createNote with the noteId that crypto.randomUUID gave.
CreateNote(store, userId, noteId, content, isPinned) ==
    LET note == [noteId |-> noteId, userId |-> userId, isPinned |-> isPinned,
                 pinnedPosition |-> 0, updatedAt |-> now]
    IN  IF userId = ""
        THEN [ok |-> FALSE, err |-> "User Id not found", store |-> store]
        ELSE IF ~IsNoteValid(content)
        THEN [ok |-> FALSE, err |-> "Invalid note", store |-> store]
        ELSE [ok |-> TRUE, err |-> "", store |-> store \cup {note}]

\* NoteService.togglePin
TogglePin(store, userId, noteId) ==
    LET note == RepoGetNote(store, userId, noteId)
        newPinnedPosition == FindHighestPinnedPosition(store, userId) + 1
        update ==
            IF note.isPinned
            THEN [note EXCEPT !.isPinned = FALSE, !.pinnedPosition = 0,
                              !.updatedAt = now]
            ELSE [note EXCEPT !.isPinned = TRUE,
                              !.pinnedPosition = newPinnedPosition,
                              !.updatedAt = now]
    IN  IF note = NoNote
        THEN [ok |-> FALSE, err |-> "Note not found", store |-> store]
        ELSE [ok |-> TRUE, err |-> "",
              store |-> (store \ {note}) \cup {update}]

\* NoteService.updatePinPosition
UpdatePinPosition(store, userId, noteId, newPos) ==
    LET exists == RepoGetNote(store, userId, noteId)
        pinnedNotesCount == PinnedNotesCount(store, userId)
    IN  IF exists = NoNote
        THEN [ok |-> FALSE, err |-> "Note not found", store |-> store]
        ELSE IF ~exists.isPinned
        THEN [ok |-> FALSE, err |-> "Note is not pinned", store |-> store]
        ELSE IF newPos < 1 \/ newPos > pinnedNotesCount
        THEN [ok |-> FALSE, err |-> "Invalid position", store |-> store]
        ELSE RepoUpdateNotePinPosition(store, userId, noteId, newPos)

\* The noteIds a request names: those of the store and an unknown one.
NoteRequestIds == NoteIds \cup {0}

\* The positions a request names.
NotePositions == 0..(MaxPosition + 1)

NoteEffect(op, userId, noteId, newPos, r) ==
    /\ notes' = r.store
    /\ res' = Res(op, r.ok, r.err, userId, <<>>, <<userId, noteId, newPos>>,
                  {}, {})
    /\ UNCHANGED <<now, ticks, cacheUp, users, issued, pairs, blacklist,
                   rateLimits, tracked, inflight, handles, todos>>

\* Notes are created with the default isPinned = false.
DoCreateNote ==
    \E userId \in UserIds \cup {""}, content \in NoteContents,
       noteId \in NoteIds \ {n.noteId : n \in notes} :
        NoteEffect("createNote", userId, noteId, 0,
                   CreateNote(notes, userId, noteId, content, FALSE))

DoTogglePin ==
    \E userId \in UserIds, noteId \in NoteRequestIds :
        /\ FindHighestPinnedPosition(notes, userId) < MaxPosition
        /\ NoteEffect("togglePin", userId, noteId, 0,
                      TogglePin(notes, userId, noteId))

DoUpdatePinPosition ==
    \E userId \in UserIds, noteId \in NoteRequestIds,
       newPos \in NotePositions :
        NoteEffect("updatePinPosition", userId, noteId, newPos,
                   UpdatePinPosition(notes, userId, noteId, newPos))

NextNote ==
    \/ Tick
    \/ DoCreateNote
    \/ DoTogglePin
    \/ DoUpdatePinPosition

SpecNote == Init /\ [][NextNote]_vars

\* C38: the pinned notes of one user have pairwise distinct pinnedPosition;
\* after an updatePinPosition(note, p) that succeeds the note is at p and
\* the other pinned notes of the user are in the order they were in; an
\* updatePinPosition with p outside 1..(number of pinned notes) fails and
\* changes nothing.
C38_PinnedOrder ==
    /\ [](\A u \in UserIds : \A n, m \in PinnedOf(notes, u) :
            n.noteId # m.noteId => n.pinnedPosition # m.pinnedPosition)
    /\ [][res'.op = "updatePinPosition" =>
            LET u == res'.args[1]
                id == res'.args[2]
                p == res'.args[3]
                PosOf(store, k) == RepoGetNote(store, u, k).pinnedPosition
                others == {n.noteId : n \in PinnedOf(notes, u)} \ {id}
            IN  /\ res'.ok =>
                    /\ PosOf(notes', id) = p
                    /\ \A a, b \in others :
                           PosOf(notes, a) < PosOf(notes, b) =>
                               PosOf(notes', a) < PosOf(notes', b)
                /\ (p < 1 \/ p > PinnedNotesCount(notes, u)) =>
                       (~res'.ok /\ notes' = notes)]_vars

====
